---- MODULE Spec2Model ----
(***************************************************************************)
(* A state-machine model of the pro-synth audio engine (AudioEngine) and   *)
(* of the loop recorder/player (Looper component).  Time is counted in     *)
(* milliseconds; pending timers carry the time left until they fire.       *)
(***************************************************************************)
EXTENDS Integers, Sequences, FiniteSets, TLC

VARIABLES
  \* ---- AudioEngine (services/audioEngine) ----
  ctx,              \* TRUE once the AudioContext and the shared nodes exist
  activeNotes,      \* label -> voice id registered under it (NoVoice: none)
  lastFrequency,    \* frequency of the most recently started note (0: null)
  voices,           \* oscillator graphs that exist: [id, label, freq, state]
  teardowns,        \* pending teardown timeouts of stopNote: [voice, due]
  nodes,            \* targets of the shared filter and master gain nodes
  audioOk,          \* environment: the AudioContext constructor succeeds
  thrown,           \* observer: the last engine call raised an exception
  \* ---- Looper component ----
  isRecording,
  playingLoopId,
  loops,
  recordedEvents,
  loopProgress,
  undoStack,
  redoStack,
  recElapsed,       \* Date.now() - recordingStartTime.current
  playbackTimers,   \* pending timeouts held in playbackTimers.current
  progressIntervals,\* live intervals held in progressIntervals.current
  latestNote,       \* last element of App's lastNoteEvents (NoNote: empty)
  nextId,           \* stands for the fresh random id of the next loop
  \* ---- observers ----
  lastOp,           \* name of the handler or callback that ran last
  prevPlaying,      \* playingLoopId as it was before that handler ran
  heard,            \* note-starts since startRecording, with their times
  redoDepth,        \* longest run of undos since the last new mutation
  playClock,        \* ms since the last playLoop start (NoClock: not timed)
  noteOns,          \* note-on callbacks since that start, while timed
  \* ---- App: MIDI controller mapping ----
  isLearnModeActive,
  midiMappings,     \* controller number -> parameter path (NoParam: no entry)
  learningParam,    \* parameter of the armed learn session (NoParam: null)
  settings,         \* parameter path -> value set through a controller
  midiHandler,      \* learningParam and midiMappings as captured by the
                    \* handleMIDIMessage closure installed as onmidimessage
  pendingHandlers,  \* closures whose requestMIDIAccess() has not resolved yet
  lastMessage,      \* observer: the last controller message handled
  torn,             \* observer: the voice that the step just taken tore down
  lastMidi,         \* observer: the bytes of the last message dispatched
  \* ---- App: presets ----
  presetName,
  savedPresets,     \* [name, settings], newest first
  alerted,          \* observer: the step just taken showed the import alert
  lastImport,       \* observer: the file that the last import read
  \* ---- Keyboard component ----
  pressedKeys,      \* pressedKeysRef.current
  isPanning,
  hasMoved,         \* hasMoved.current
  pointer,          \* environment: where the mouse pointer is
  buttons,          \* environment: the left mouse button is down
  touches,          \* environment: the elements on which a touch began
  emitted,          \* observer: onNoteStart/onNoteEnd calls of the last step
  held              \* observer: labels whose last call was onNoteStart

engineVars == <<ctx, activeNotes, lastFrequency, voices, teardowns, nodes,
                audioOk, thrown>>
looperVars == <<isRecording, playingLoopId, loops, recordedEvents, loopProgress,
                undoStack, redoStack, recElapsed, playbackTimers,
                progressIntervals, latestNote, nextId, heard, redoDepth>>
stopwatch == <<playClock, noteOns>>
midiVars == <<isLearnModeActive, midiMappings, learningParam, settings,
              midiHandler, pendingHandlers, lastMessage>>
presetVars == <<presetName, savedPresets, lastImport>>
keyboardVars == <<pressedKeys, isPanning, hasMoved, pointer, buttons, touches,
                  held>>
vars == <<engineVars, looperVars, lastOp, prevPlaying, stopwatch, midiVars,
          torn, lastMidi, presetVars, alerted, keyboardVars, emitted>>

\* the steps of the Keyboard component
KeyboardOps == {"keyDown", "keyUp", "mouseDown", "mouseUp", "mouseMove",
                "touchStart", "touchMove", "touchEnd"}

\* the steps of the preset library
PresetOps == {"importPreset", "loadPreset", "saveCurrent", "deletePreset"}

\* the steps that the stopwatch follows: time passing, a playback start, a
\* note-on callback
Timed == {"advance", "playLoop", "noteOn"}

\* the steps of the controller mapping
MidiOps == {"attach", "toggleLearn", "closeLearn", "selectParam",
            "controlChange", "deleteMapping", "clearMappings", "turnKnob",
            "toggleGlide", "glideSwitch", "midiMessage", "importPreset",
            "loadPreset", "tuneSlider"}

Did(op) ==
  /\ lastOp' = op
  /\ prevPlaying' = playingLoopId
  /\ op \notin Timed => UNCHANGED stopwatch
  /\ op \notin MidiOps => UNCHANGED midiVars
  /\ op # "teardown" => torn' = <<>>
  /\ op # "midiMessage" => UNCHANGED lastMidi
  /\ op \notin PresetOps => UNCHANGED presetVars
  /\ op # "importPreset" => alerted' = FALSE
  /\ op \notin KeyboardOps => (UNCHANGED keyboardVars /\ emitted' = <<>>)

\* ------------------------------------------------------------------------
\* Bounds of the model
\* ------------------------------------------------------------------------
MaxVoices == 3
MaxLoops == 1
MaxEvents == 2
MaxRecMs == 1000
MaxMutations == 2
MaxPlayMs == 2500
MaxPendingAttach == 1

\* ------------------------------------------------------------------------
\* Program constants
\* ------------------------------------------------------------------------
TeardownMargin == 100
NoteOffDelay == 300
ProgressPeriod == 16
HistoryLimit == 20

\* ------------------------------------------------------------------------
\* Helpers
\* ------------------------------------------------------------------------
NoVoice == 0
NoNote == [note |-> "none", frequency |-> 0]
NoLoop == 0
NoClock == -1

\* settings are kept in 1/Unit of their own unit (Hz, seconds, cents), so
\* that a rescaled controller value and a millisecond are both whole
Unit == 127000
Ms(n) == 127 * n

Labels == {"C4", "A4"}
FreqOf(label) == IF label = "A4" THEN 440 ELSE 262
ReleaseMs == {50, 300}
EngineSteps == {100}

SetMin(S) == CHOOSE x \in S : \A y \in S : x <= y
SetMax(S) == CHOOSE x \in S : \A y \in S : x >= y
Front(s) == SubSeq(s, 1, Len(s) - 1)
Last(s) == s[Len(s)]
Range(s) == {s[i] : i \in 1..Len(s)}

\* ========================================================================
\* AudioEngine
\* ========================================================================
\* the engine as a call finds it; no exception has been raised yet
Engine == [ctx |-> ctx, activeNotes |-> activeNotes,
           lastFrequency |-> lastFrequency, voices |-> voices,
           teardowns |-> teardowns, nodes |-> nodes, audioOk |-> audioOk,
           thrown |-> FALSE]

\* a setting: the value, and whether it is still the one of DEFAULT_SETTINGS
Set(value) == [default |-> FALSE, value |-> value]
NoNodes == [cutoff |-> Set(0), gain |-> Set(0)]
\* filter.frequency.value = 2000 and masterGain.gain.value = 0.5, in the
\* units of the settings
InitNodes == [cutoff |-> Set(2000 * Unit), gain |-> Set(Unit \div 2)]

\* init(): creates the context and the shared nodes once; the constructor
\* call is not guarded, so its exception leaves init()
EngineInit(e) ==
  IF e.ctx THEN e
  ELSE IF e.audioOk THEN [e EXCEPT !.ctx = TRUE, !.nodes = InitNodes]
       ELSE [e EXCEPT !.thrown = TRUE]

FreshVoice(e) == SetMin((1..(MaxVoices + 1)) \ {v.id : v \in e.voices})

\* a stopNote that clears the glide origin when it finds no entry
StopNoteForgetsGlide(e, label, release) ==
  LET id == e.activeNotes[label] IN
  IF id = NoVoice \/ ~e.ctx THEN [e EXCEPT !.lastFrequency = 0]
  ELSE [e EXCEPT
          !.voices = {IF v.id = id THEN [v EXCEPT !.state = "releasing"] ELSE v
                      : v \in e.voices},
          !.teardowns = e.teardowns \cup
                          {[voice |-> id, due |-> release + TeardownMargin]},
          !.activeNotes = [e.activeNotes EXCEPT ![label] = NoVoice]]

\* stopNote(label, settings): release ramp, teardown timeout, table delete
StopNoteOp(e, label, release) ==
  LET id == e.activeNotes[label] IN
  IF id = NoVoice \/ ~e.ctx THEN e
  ELSE [e EXCEPT
          !.voices = {IF v.id = id THEN [v EXCEPT !.state = "releasing"] ELSE v
                      : v \in e.voices},
          !.teardowns = e.teardowns \cup
                          {[voice |-> id, due |-> release + TeardownMargin]},
          !.activeNotes = [e.activeNotes EXCEPT ![label] = NoVoice]]

RetriggerSkipped(e, label, release) == e

\* the retrigger branch of playNote: an entry under the label is stopped first
Retrigger(e, label, release) ==
  IF e.activeNotes[label] # NoVoice THEN StopNoteOp(e, label, release) ELSE e

\* the frequency schedule of a new oscillator: set at once, or held at
\* `from` and ramped to the target from `start` ms on, over `duration` ms
NoGlide == [from |-> 0, start |-> 0, duration |-> 0]
GlideStart == Ms(2)
GlideFloor == Ms(5)

\* a glide branch that does not look at the glide switch
GlideIgnoresSwitch(last, freq, s) ==
  IF last # 0 /\ last > 0 /\ last # freq /\ s.glideSpeed > 0
  THEN [from |-> last, start |-> GlideStart,
        duration |-> IF s.glideSpeed > GlideFloor THEN s.glideSpeed
                     ELSE GlideFloor]
  ELSE NoGlide

\* the glide branch of playNote
GlideOf(last, freq, s) ==
  IF s.glide /\ last # 0 /\ last > 0 /\ last # freq /\ s.glideSpeed > 0
  THEN [from |-> last, start |-> GlideStart,
        duration |-> IF s.glideSpeed > GlideFloor THEN s.glideSpeed
                     ELSE GlideFloor]
  ELSE NoGlide

\* a playNote that moves the glide origin only while the glide switch is on
PlayNoteTracksGlidesOnly(e, freq, label, s) ==
  LET e1 == EngineInit(e) IN
  IF e1.thrown \/ ~e1.ctx THEN e1
  ELSE LET e2 == Retrigger(e1, label, s.release)
           id == FreshVoice(e2)
       IN [e2 EXCEPT
             !.voices = e2.voices \cup
                 {[id |-> id, label |-> label, freq |-> freq,
                   state |-> "sounding",
                   glide |-> GlideOf(e2.lastFrequency, freq, s),
                   detune |-> s.detune, width |-> s.stereoWidth]},
             !.lastFrequency = IF s.glide THEN freq ELSE e2.lastFrequency,
             !.activeNotes = [e2.activeNotes EXCEPT ![label] = id]]

\* playNote(freq, label, settings); s holds the fields of settings it reads
PlayNoteOp(e, freq, label, s) ==
  LET e1 == EngineInit(e) IN
  IF e1.thrown \/ ~e1.ctx THEN e1
  ELSE LET e2 == Retrigger(e1, label, s.release)
           id == FreshVoice(e2)
       IN [e2 EXCEPT
             !.voices = e2.voices \cup
                 {[id |-> id, label |-> label, freq |-> freq,
                   state |-> "sounding",
                   glide |-> GlideOf(e2.lastFrequency, freq, s),
                   detune |-> s.detune, width |-> s.stereoWidth]},
             !.lastFrequency = freq,
             !.activeNotes = [e2.activeNotes EXCEPT ![label] = id]]

\* an updateSettings that retargets every voice that has not been torn down
UpdateSettingsAllVoices(e, s) ==
  IF ~e.ctx THEN e
  ELSE [e EXCEPT
          !.nodes = [cutoff |-> s.cutoff, gain |-> s.gain],
          !.voices = {[v EXCEPT !.detune = s.detune, !.width = s.stereoWidth]
                      : v \in e.voices}]

\* updateSettings(settings): the shared nodes, then the detune and the pan
\* of every voice of the table
UpdateSettingsOp(e, s) ==
  IF ~e.ctx THEN e
  ELSE [e EXCEPT
          !.nodes = [cutoff |-> s.cutoff, gain |-> s.gain],
          !.voices = {IF e.activeNotes[v.label] = v.id
                      THEN [v EXCEPT !.detune = s.detune,
                                     !.width = s.stereoWidth]
                      ELSE v : v \in e.voices}]

SetEngine(e) ==
  /\ ctx' = e.ctx
  /\ activeNotes' = e.activeNotes
  /\ lastFrequency' = e.lastFrequency
  /\ voices' = e.voices
  /\ teardowns' = e.teardowns
  /\ nodes' = e.nodes
  /\ audioOk' = e.audioOk
  /\ thrown' = e.thrown

\* the fields of the App's settings that the engine reads, with the release
\* time of the call in ms
Synth(s, release) ==
  [release |-> release,
   glide |-> s["glide"].value = 1,
   glideSpeed |-> s["glideSpeed"].value,
   detune |-> s["detune"].value + s["masterTune"].value,
   stereoWidth |-> s["stereoWidth"].value,
   cutoff |-> s["filter.frequency"],
   gain |-> s["gain"]]

EnginePlayNote ==
  \E label \in Labels, r \in ReleaseMs :
    /\ Cardinality(voices) < MaxVoices
    /\ SetEngine(PlayNoteOp(Engine, FreqOf(label), label, Synth(settings, r)))
    /\ Did("playNote")
    /\ UNCHANGED looperVars

\* a stopNote that deletes the table entry and schedules no teardown
EngineStopNoteNoTimeout ==
  \E label \in Labels :
    /\ activeNotes[label] # NoVoice
    /\ activeNotes' = [activeNotes EXCEPT ![label] = NoVoice]
    /\ Did("stopNote")
    /\ UNCHANGED <<ctx, lastFrequency, voices, teardowns, nodes, audioOk,
                   thrown, looperVars>>

EngineStopNote ==
  \E label \in Labels, r \in ReleaseMs :
    /\ SetEngine(StopNoteOp(Engine, label, r))
    /\ Did("stopNote")
    /\ UNCHANGED looperVars

\* a timeout callback that looks the voice up under its label when it fires
EngineTeardownByLabel ==
  \E t \in teardowns :
    /\ t.due = 0
    /\ teardowns' = teardowns \ {t}
    /\ LET old == CHOOSE v \in voices : v.id = t.voice
           cur == IF activeNotes[old.label] # NoVoice
                  THEN activeNotes[old.label] ELSE old.id
       IN /\ voices' = {v \in voices : v.id # cur}
          /\ torn' = <<CHOOSE v \in voices : v.id = cur>>
          /\ activeNotes' = [activeNotes EXCEPT ![old.label] = NoVoice]
    /\ Did("teardown")
    /\ UNCHANGED <<ctx, lastFrequency, nodes, audioOk, thrown, looperVars>>

\* the timeout callback of stopNote: osc.stop() and the three disconnects
EngineTeardown ==
  \E t \in teardowns :
    /\ t.due = 0
    /\ teardowns' = teardowns \ {t}
    /\ voices' = {v \in voices : v.id # t.voice}
    /\ torn' = <<CHOOSE v \in voices : v.id = t.voice>>
    /\ Did("teardown")
    /\ UNCHANGED <<ctx, activeNotes, lastFrequency, nodes, audioOk, thrown,
                   looperVars>>

\* time passes, never beyond the next timeout that is due
EngineAdvance ==
  /\ teardowns # {}
  /\ \A t \in teardowns : t.due > 0
  /\ LET next == SetMin({t.due : t \in teardowns}) IN
     \E d \in {next} \cup {s \in EngineSteps : s < next} :
       teardowns' = {[t EXCEPT !.due = t.due - d] : t \in teardowns}
  /\ Did("advance")
  /\ UNCHANGED <<ctx, activeNotes, lastFrequency, voices, nodes, audioOk,
                 thrown, looperVars, stopwatch>>

\* ========================================================================
\* Looper
\* ========================================================================
LoopModes == <<"repeat", "oneshot", "pingpong">>
EditNames == {"", "A"}
IdleSteps == {500}

LoopName(n) == IF n = 1 THEN "LOOP 1" ELSE IF n = 2 THEN "LOOP 2" ELSE "LOOP N"
LoopIds(ls) == {ls[i].id : i \in 1..Len(ls)}
\* loops.find(l => l.id === id); only used when the id is present
FindLoop(ls, id) == ls[SetMin({i \in 1..Len(ls) : ls[i].id = id})]
\* loops.filter(pred) with pred given as the set of kept indices
RECURSIVE FilterOut(_, _)
FilterOut(ls, id) ==
  IF ls = <<>> THEN <<>>
  ELSE IF Head(ls).id = id THEN FilterOut(Tail(ls), id)
       ELSE <<Head(ls)>> \o FilterOut(Tail(ls), id)
RECURSIVE DropDue(_)
\* the pending timeouts without the first one that is due
DropDue(ts) ==
  IF ts = <<>> THEN <<>>
  ELSE IF Head(ts).due = 0 THEN Tail(ts) ELSE <<Head(ts)>> \o DropDue(Tail(ts))
FirstDue(ts) == ts[SetMin({i \in 1..Len(ts) : ts[i].due = 0})]
HasDue(ts) == \E i \in 1..Len(ts) : ts[i].due = 0

\* (elapsed / duration) * 100, kept as a whole number of percent
Percent(elapsed, duration) == (elapsed * 100) \div duration

LastNKeepsAll(s, n) == s

\* arr.slice(-n)
LastN(s, n) == IF Len(s) > n THEN SubSeq(s, Len(s) - n + 1, Len(s)) ELSE s

History == [undoStack |-> undoStack, loops |-> loops, redoStack |-> redoStack]

PushKeepsRedo(h, currentLoops) ==
  [h EXCEPT !.undoStack = LastN(Append(h.undoStack, currentLoops), HistoryLimit)]

\* pushToHistory(currentLoops): setUndoStack([...prev, [...currentLoops]]
\* .slice(-20)) and setRedoStack([])
PushToHistory(h, currentLoops) ==
  [h EXCEPT !.undoStack = LastN(Append(h.undoStack, currentLoops), HistoryLimit),
            !.redoStack = <<>>]

Playback == [playingLoopId |-> playingLoopId, playbackTimers |-> playbackTimers,
             progressIntervals |-> progressIntervals,
             loopProgress |-> loopProgress]

StopPlaybackKeepsIntervals(p) ==
  [p EXCEPT !.playingLoopId = NoLoop,
            !.playbackTimers = <<>>,
            !.loopProgress = <<>>]

\* stopPlayback()
StopPlaybackOp(p) ==
  [p EXCEPT !.playingLoopId = NoLoop,
            !.playbackTimers = <<>>,
            !.progressIntervals = {i \in p.progressIntervals : ~i.held},
            !.loopProgress = <<>>]

\* the timeouts of one event: note-on at its timestamp, note-off 300 ms later
NoteTimers(loopId, events) ==
  [k \in 1..(2 * Len(events)) |->
     LET e == events[(k + 1) \div 2] IN
     [kind |-> IF k % 2 = 1 THEN "play" ELSE "stop",
      loop |-> loopId, note |-> e.note, frequency |-> e.frequency,
      due |-> IF k % 2 = 1 THEN e.timestamp ELSE e.timestamp + NoteOffDelay,
      dir |-> "none"]]

EventsToPlayUnmirrored(loop, dir) == loop.events

\* direction === 'forward' ? events : events.map(timestamp -> duration - timestamp)
EventsToPlay(loop, dir) ==
  IF dir = "forward" THEN loop.events
  ELSE [i \in 1..Len(loop.events) |->
          [loop.events[i] EXCEPT !.timestamp = loop.duration - @]]

\* a cycle that waits for its last possible note-off before it ends
ExecutePlaybackLate(p, ls, loopId, dir) ==
  IF loopId \notin LoopIds(ls) THEN [p EXCEPT !.playingLoopId = NoLoop]
  ELSE
    LET cur == FindLoop(ls, loopId)
        progInt == [loop |-> loopId, due |-> ProgressPeriod, elapsed |-> 0,
                    duration |-> cur.duration, held |-> TRUE]
        endTimer == [kind |-> "end", loop |-> loopId, note |-> "none",
                     frequency |-> 0, due |-> cur.duration + NoteOffDelay,
                     dir |-> dir]
    IN [p EXCEPT
          !.progressIntervals =
             {IF i.loop = loopId THEN [i EXCEPT !.held = FALSE] ELSE i
              : i \in p.progressIntervals} \cup {progInt},
          !.playbackTimers =
             p.playbackTimers \o NoteTimers(loopId, EventsToPlay(cur, dir))
               \o <<endTimer>>]

\* executePlayback(direction) of the playLoop(loopId) closure; ls is loopsRef
ExecutePlaybackOp(p, ls, loopId, dir) ==
  IF loopId \notin LoopIds(ls) THEN [p EXCEPT !.playingLoopId = NoLoop]
  ELSE
    LET cur == FindLoop(ls, loopId)
        progInt == [loop |-> loopId, due |-> ProgressPeriod, elapsed |-> 0,
                    duration |-> cur.duration, held |-> TRUE]
        endTimer == [kind |-> "end", loop |-> loopId, note |-> "none",
                     frequency |-> 0, due |-> cur.duration, dir |-> dir]
    IN [p EXCEPT
          !.progressIntervals =
             {IF i.loop = loopId THEN [i EXCEPT !.held = FALSE] ELSE i
              : i \in p.progressIntervals} \cup {progInt},
          !.playbackTimers =
             p.playbackTimers \o NoteTimers(loopId, EventsToPlay(cur, dir))
               \o <<endTimer>>]

StartLoopWithoutStop(p, ls, loopId) ==
  ExecutePlaybackOp([p EXCEPT !.playingLoopId = loopId], ls, loopId, "forward")

\* the body of playLoop after the toggle test
StartLoopOp(p, ls, loopId) ==
  ExecutePlaybackOp([StopPlaybackOp(p) EXCEPT !.playingLoopId = loopId],
                    ls, loopId, "forward")

\* playLoop(loopId)
PlayLoopOp(p, ls, loopId) ==
  IF p.playingLoopId = loopId THEN StopPlaybackOp(p)
  ELSE StartLoopOp(p, ls, loopId)

EndTimerStopsRepeat(p, ls, t) ==
  LET p1 == [p EXCEPT !.progressIntervals =
                        {i \in p.progressIntervals :
                           ~(i.loop = t.loop /\ i.held)}]
  IN IF t.loop \notin LoopIds(ls) THEN StopPlaybackOp(p1)
     ELSE LET latest == FindLoop(ls, t.loop) IN
          IF latest.mode = "pingpong"
          THEN ExecutePlaybackOp(p1, ls, t.loop,
                 IF t.dir = "forward" THEN "backward" ELSE "forward")
          ELSE [p1 EXCEPT !.playingLoopId = NoLoop,
                          !.loopProgress =
                             [l \in (DOMAIN p1.loopProgress) \cup {t.loop} |->
                                IF l = t.loop THEN 0 ELSE p1.loopProgress[l]]]

\* the endTimer callback of executePlayback
EndTimerOp(p, ls, t) ==
  LET p1 == [p EXCEPT !.progressIntervals =
                        {i \in p.progressIntervals :
                           ~(i.loop = t.loop /\ i.held)}]
  IN IF t.loop \notin LoopIds(ls) THEN StopPlaybackOp(p1)
     ELSE LET latest == FindLoop(ls, t.loop) IN
          IF latest.mode = "oneshot"
          THEN [p1 EXCEPT !.playingLoopId = NoLoop,
                          !.loopProgress =
                             [l \in (DOMAIN p1.loopProgress) \cup {t.loop} |->
                                IF l = t.loop THEN 0 ELSE p1.loopProgress[l]]]
          ELSE IF latest.mode = "pingpong"
          THEN ExecutePlaybackOp(p1, ls, t.loop,
                 IF t.dir = "forward" THEN "backward" ELSE "forward")
          ELSE ExecutePlaybackOp(p1, ls, t.loop, "forward")

SetPlayback(p) ==
  /\ playingLoopId' = p.playingLoopId
  /\ playbackTimers' = p.playbackTimers
  /\ progressIntervals' = p.progressIntervals
  /\ loopProgress' = p.loopProgress

playbackVars == <<playingLoopId, playbackTimers, progressIntervals,
                  loopProgress>>

\* the effect on [currentNotes, isRecording]: appends the latest note
RecordEffect(buf, rec, latest, elapsed) ==
  IF rec /\ latest # NoNote
  THEN Append(buf, [note |-> latest.note, frequency |-> latest.frequency,
                    timestamp |-> elapsed])
  ELSE buf

\* handleNoteStart as seen by the Looper: a new last note, then the effect
OnNoteStart(note, freq) ==
  /\ latestNote' = [note |-> note, frequency |-> freq]
  /\ recordedEvents' = RecordEffect(recordedEvents, isRecording,
                                    [note |-> note, frequency |-> freq],
                                    recElapsed)
  /\ heard' = IF isRecording
              THEN Append(heard, [note |-> note, frequency |-> freq,
                                  timestamp |-> recElapsed])
              ELSE heard

\* a key press or a MIDI note-on
NoteStart ==
  \E label \in Labels :
    /\ isRecording => Len(recordedEvents) < MaxEvents
    /\ OnNoteStart(label, FreqOf(label))
    /\ Did("noteStart")
    /\ UNCHANGED <<engineVars, isRecording, loops, undoStack, redoStack,
                   recElapsed, nextId, playbackVars, redoDepth>>

\* startRecording(), followed by the effect that the change of isRecording
\* triggers
StartRecording ==
  /\ ~isRecording
  /\ isRecording' = TRUE
  /\ recElapsed' = 0
  /\ recordedEvents' = RecordEffect(<<>>, TRUE, latestNote, 0)
  /\ heard' = <<>>
  /\ Did("startRecording")
  /\ UNCHANGED <<engineVars, loops, undoStack, redoStack, latestNote, nextId,
                 playbackVars, redoDepth>>

NewLoop(id, n, events, duration) ==
  [id |-> id, name |-> LoopName(n), events |-> events, duration |-> duration,
   mode |-> "repeat"]

SetHistory(h) ==
  /\ undoStack' = h.undoStack
  /\ loops' = h.loops
  /\ redoStack' = h.redoStack

\* stopRecording()
StopRecording(cap) ==
  /\ isRecording
  /\ recElapsed > 0
  /\ isRecording' = FALSE
  /\ recElapsed' = 0
  /\ IF Len(recordedEvents) > 0
     THEN /\ nextId <= MaxLoops
          /\ Len(undoStack) < cap
          /\ SetHistory([PushToHistory(History, loops) EXCEPT
                           !.loops = Append(loops,
                                            NewLoop(nextId, Len(loops) + 1,
                                                    recordedEvents, recElapsed))])
          /\ redoDepth' = 0
          /\ nextId' = nextId + 1
          /\ Did("commit")
     ELSE /\ UNCHANGED <<undoStack, redoStack, redoDepth, loops, nextId>>
          /\ Did("stopRecording")
  /\ UNCHANGED <<engineVars, recordedEvents, heard, latestNote, playbackVars>>

PlayLoop ==
  \E id \in LoopIds(loops) :
    /\ SetPlayback(PlayLoopOp(Playback, loops, id))
    /\ Did(IF playingLoopId = id THEN "toggleStop" ELSE "playLoop")
    /\ playingLoopId # id
         => /\ playClock' = (IF playClock = NoClock THEN NoClock ELSE 0)
            /\ noteOns' = 0
    /\ UNCHANGED <<engineVars, isRecording, loops, recordedEvents, heard,
                   undoStack, redoStack, recElapsed, latestNote, nextId,
                   redoDepth>>

NextMode(m) == IF m = "repeat" THEN "oneshot"
               ELSE IF m = "oneshot" THEN "pingpong" ELSE "repeat"

\* prev.map(l => l.id !== id ? l : {...l, mode: next mode})
CycleModeOp(ls, id) ==
  [i \in 1..Len(ls) |->
     IF ls[i].id # id THEN ls[i] ELSE [ls[i] EXCEPT !.mode = NextMode(@)]]

\* a rename that writes the edit name into every loop
SaveEditRenamesAll(ls, id, editName) ==
  [i \in 1..Len(ls) |->
     [ls[i] EXCEPT !.name = IF editName # "" THEN editName ELSE @]]

\* prev.map(l => l.id === id ? {...l, name: editName || l.name} : l)
SaveEditOp(ls, id, editName) ==
  [i \in 1..Len(ls) |->
     IF ls[i].id = id
     THEN [ls[i] EXCEPT !.name = IF editName # "" THEN editName ELSE @]
     ELSE ls[i]]

CycleModeStopsPlayback(cap) ==
  \E id \in LoopIds(loops) :
    /\ Len(undoStack) < cap
    /\ SetHistory([PushToHistory(History, loops) EXCEPT
                     !.loops = CycleModeOp(loops, id)])
    /\ redoDepth' = 0
    /\ SetPlayback(StopPlaybackOp(Playback))
    /\ Did("cycleMode")
    /\ UNCHANGED <<engineVars, isRecording, recordedEvents, heard, recElapsed,
                   latestNote, nextId>>

CycleMode(cap) ==
  \E id \in LoopIds(loops) :
    /\ Len(undoStack) < cap
    /\ SetHistory([PushToHistory(History, loops) EXCEPT
                     !.loops = CycleModeOp(loops, id)])
    /\ redoDepth' = 0
    /\ Did("cycleMode")
    /\ UNCHANGED <<engineVars, isRecording, recordedEvents, heard, recElapsed,
                   latestNote, nextId, playbackVars>>

SaveEdit(cap) ==
  \E id \in LoopIds(loops), editName \in EditNames :
    /\ Len(undoStack) < cap
    /\ SetHistory([PushToHistory(History, loops) EXCEPT
                     !.loops = SaveEditOp(loops, id, editName)])
    /\ redoDepth' = 0
    /\ Did("saveEdit")
    /\ UNCHANGED <<engineVars, isRecording, recordedEvents, heard, recElapsed,
                   latestNote, nextId, playbackVars>>

\* a deleteLoop that never stops the playback
DeleteLoopKeepsPlaying(cap) ==
  \E id \in LoopIds(loops) :
    /\ Len(undoStack) < cap
    /\ SetHistory([PushToHistory(History, loops) EXCEPT
                     !.loops = FilterOut(loops, id)])
    /\ redoDepth' = 0
    /\ Did("deleteLoop")
    /\ UNCHANGED <<engineVars, isRecording, recordedEvents, heard, recElapsed,
                   latestNote, nextId, playbackVars>>

DeleteLoop(cap) ==
  \E id \in LoopIds(loops) :
    /\ Len(undoStack) < cap
    /\ SetHistory([PushToHistory(History, loops) EXCEPT
                     !.loops = FilterOut(loops, id)])
    /\ redoDepth' = 0
    /\ IF playingLoopId = id THEN SetPlayback(StopPlaybackOp(Playback))
       ELSE UNCHANGED playbackVars
    /\ Did("deleteLoop")
    /\ UNCHANGED <<engineVars, isRecording, recordedEvents, heard, recElapsed,
                   latestNote, nextId>>

ClearAllLoops(cap) ==
  /\ Len(loops) > 0
  /\ Len(undoStack) < cap
  /\ SetHistory([PushToHistory(History, loops) EXCEPT !.loops = <<>>])
  /\ redoDepth' = 0
  /\ SetPlayback(StopPlaybackOp(Playback))
  /\ Did("clearAllLoops")
  /\ UNCHANGED <<engineVars, isRecording, recordedEvents, heard, recElapsed,
                 latestNote, nextId>>

UndoForgetsCurrent(h) ==
  IF Len(h.undoStack) = 0 THEN h
  ELSE [undoStack |-> Front(h.undoStack),
        loops |-> Last(h.undoStack),
        redoStack |-> Append(h.redoStack, Last(h.undoStack))]

\* performUndo() without its stopPlayback() call
UndoOp(h) ==
  IF Len(h.undoStack) = 0 THEN h
  ELSE [undoStack |-> Front(h.undoStack),
        loops |-> Last(h.undoStack),
        redoStack |-> Append(h.redoStack, h.loops)]

\* performRedo() without its stopPlayback() call
RedoOp(h) ==
  IF Len(h.redoStack) = 0 THEN h
  ELSE [undoStack |-> Append(h.undoStack, h.loops),
        loops |-> Last(h.redoStack),
        redoStack |-> Front(h.redoStack)]

PerformUndoNoStop ==
  /\ Len(undoStack) > 0
  /\ SetHistory(UndoOp(History))
  /\ redoDepth' = IF Len(redoStack) + 1 > redoDepth THEN Len(redoStack) + 1
                  ELSE redoDepth
  /\ Did("undo")
  /\ UNCHANGED <<engineVars, isRecording, recordedEvents, heard, recElapsed,
                 latestNote, nextId, playbackVars>>

\* performUndo()
PerformUndo ==
  /\ Len(undoStack) > 0
  /\ SetHistory(UndoOp(History))
  /\ SetPlayback(StopPlaybackOp(Playback))
  /\ redoDepth' = IF Len(redoStack) + 1 > redoDepth THEN Len(redoStack) + 1
                  ELSE redoDepth
  /\ Did("undo")
  /\ UNCHANGED <<engineVars, isRecording, recordedEvents, heard, recElapsed,
                 latestNote, nextId>>

\* performRedo()
PerformRedo ==
  /\ Len(redoStack) > 0
  /\ SetHistory(RedoOp(History))
  /\ SetPlayback(StopPlaybackOp(Playback))
  /\ Did("redo")
  /\ UNCHANGED <<engineVars, isRecording, recordedEvents, heard, recElapsed,
                 latestNote, nextId, redoDepth>>

\* ---- timer callbacks ----
\* window.setTimeout(() => onPlayEvent(event.note, event.frequency), ...)
FirePlay ==
  /\ HasDue(playbackTimers)
  /\ LET t == FirstDue(playbackTimers) IN
     /\ t.kind = "play"
     /\ isRecording => Len(recordedEvents) < MaxEvents
     /\ OnNoteStart(t.note, t.frequency)
  /\ playbackTimers' = DropDue(playbackTimers)
  /\ Did("noteOn")
  /\ noteOns' = (IF playClock = NoClock THEN noteOns ELSE noteOns + 1)
  /\ UNCHANGED playClock
  /\ UNCHANGED <<engineVars, isRecording, loops, undoStack, redoStack,
                 recElapsed, nextId, playingLoopId, progressIntervals,
                 loopProgress, redoDepth>>

\* window.setTimeout(() => onStopEvent(event.note), ...)
FireStop ==
  /\ HasDue(playbackTimers)
  /\ FirstDue(playbackTimers).kind = "stop"
  /\ playbackTimers' = DropDue(playbackTimers)
  /\ Did("noteOff")
  /\ UNCHANGED <<engineVars, isRecording, loops, recordedEvents, heard,
                 undoStack, redoStack, recElapsed, latestNote, nextId,
                 playingLoopId, progressIntervals, loopProgress, redoDepth>>

FireEnd ==
  /\ HasDue(playbackTimers)
  /\ LET t == FirstDue(playbackTimers) IN
     /\ t.kind = "end"
     /\ SetPlayback(EndTimerOp([Playback EXCEPT
                                  !.playbackTimers = DropDue(playbackTimers)],
                               loops, t))
  /\ Did("cycleEnd")
  /\ UNCHANGED <<engineVars, isRecording, loops, recordedEvents, heard,
                 undoStack, redoStack, recElapsed, latestNote, nextId,
                 redoDepth>>

\* the setInterval callback: setLoopProgress(prev => ({...prev, [loopId]: %}))
FireProgress ==
  \E i \in progressIntervals :
    /\ i.due = 0
    /\ loopProgress' =
         [l \in (DOMAIN loopProgress) \cup {i.loop} |->
            IF l = i.loop THEN Percent(i.elapsed, i.duration)
            ELSE loopProgress[l]]
    /\ progressIntervals' =
         (progressIntervals \ {i}) \cup {[i EXCEPT !.due = ProgressPeriod]}
    /\ Did("progress")
    /\ UNCHANGED <<engineVars, isRecording, loops, recordedEvents, heard,
                   undoStack, redoStack, recElapsed, latestNote, nextId,
                   playingLoopId, playbackTimers, redoDepth>>

PendingDues ==
  {playbackTimers[k].due : k \in 1..Len(playbackTimers)}
    \cup {i.due : i \in progressIntervals}

\* time passes, never beyond the next timeout or interval tick that is due
Advance ==
  /\ 0 \notin PendingDues
  /\ isRecording \/ PendingDues # {}
  /\ \E d \in (IF PendingDues = {} THEN IdleSteps
               ELSE {SetMin(PendingDues)}
                      \cup {s \in IdleSteps : s < SetMin(PendingDues)}) :
       /\ isRecording => recElapsed + d <= MaxRecMs
       /\ playClock # NoClock => playClock + d <= MaxPlayMs
       /\ recElapsed' = IF isRecording THEN recElapsed + d ELSE recElapsed
       /\ playClock' = (IF playClock = NoClock THEN NoClock ELSE playClock + d)
       /\ playbackTimers' = [k \in 1..Len(playbackTimers) |->
                               [playbackTimers[k] EXCEPT !.due = @ - d]]
       /\ progressIntervals' = {[i EXCEPT !.due = @ - d, !.elapsed = @ + d]
                                : i \in progressIntervals}
  /\ Did("advance")
  /\ UNCHANGED <<engineVars, isRecording, loops, recordedEvents, heard,
                 undoStack, redoStack, latestNote, nextId, playingLoopId,
                 loopProgress, redoDepth, noteOns>>

\* ========================================================================
\* App: MIDI controller mapping
\* ========================================================================
CCs == {1, 7, 20}
CCValues == {127}
NoParam == "none"

\* the data byte of a message: the 7-bit range, and the first bytes beyond
\* it (the handler reads message.data as it comes; larger bytes rescale
\* alike)
DataBytes == 0..140

\* MAPPABLE_PARAMS, min and max in hundredths
MAPPABLE_PARAMS ==
  {[id |-> "filter.frequency", min |-> 2000, max |-> 1500000],
   [id |-> "filter.resonance", min |-> 10, max |-> 2000],
   [id |-> "envelope.attack", min |-> 1, max |-> 200],
   [id |-> "envelope.decay", min |-> 1, max |-> 200],
   [id |-> "envelope.sustain", min |-> 1, max |-> 100],
   [id |-> "envelope.release", min |-> 1, max |-> 300],
   [id |-> "gain", min |-> 0, max |-> 100],
   [id |-> "detune", min |-> -10000, max |-> 10000],
   [id |-> "stereoWidth", min |-> 0, max |-> 100],
   [id |-> "reverb", min |-> 0, max |-> 80],
   [id |-> "delay", min |-> 0, max |-> 80],
   [id |-> "glideSpeed", min |-> 1, max |-> 100]}
\* the knobs that the model presses in learn mode
ParamIds == {"filter.frequency", "envelope.attack", "gain"}

NoMappings == [cc \in CCs |-> NoParam]
\* { 1: 'filter.frequency', 7: 'gain' }
DefaultMappings ==
  [cc \in CCs |-> IF cc = 1 THEN "filter.frequency"
                  ELSE IF cc = 7 THEN "gain" ELSE NoParam]
\* what setSettings(preset.settings) stores when the preset has no settings
UndefinedSettings == [k \in {"undefined"} |-> 0]

\* the fields of SynthSettings that the model follows
SettingKeys == {p.id : p \in MAPPABLE_PARAMS} \cup {"glide", "masterTune"}
DefaultSettings == [p \in SettingKeys |-> [default |-> TRUE, value |-> 0]]

LearnClearsTable(m, cc, param) == [NoMappings EXCEPT ![cc] = param]

LearnKeepsOldController(m, cc, param) == [m EXCEPT ![cc] = param]

\* the setMidiMappings updater of the learn branch: delete next[ccNumber],
\* delete every entry of the parameter, next[ccNumber] = learningParam
LearnOp(m, cc, param) ==
  LET n1 == [m EXCEPT ![cc] = NoParam]
      n2 == [k \in DOMAIN n1 |-> IF n1[k] = param THEN NoParam ELSE n1[k]]
  IN [n2 EXCEPT ![cc] = param]

\* a rescaling that forgets the minimum of the range
RescaleFromZero(def, ccValue) == 10 * (ccValue * (def.max - def.min))

\* (ccValue / 127) * (max - min) + min, in 1/Unit
Rescale(def, ccValue) == 10 * (ccValue * (def.max - def.min) + 127 * def.min)

\* updateNestedSetting(path, value)
UpdateNestedSetting(s, path, value) ==
  [s EXCEPT ![path] =
     [default |-> FALSE,
      value |-> IF path = "glide" THEN (IF 2 * value > Unit THEN 1 ELSE 0)
                ELSE value]]

\* useEffect(() => audioEngine.updateSettings(settings), [settings]): runs
\* after every setSettings, with the settings of the new render
\* the render with undefined settings throws (Controls reads their fields),
\* so its effects never run
SettingsEffect(next) ==
  IF next # UndefinedSettings
  THEN SetEngine(UpdateSettingsOp(Engine, Synth(next, 0)))
  ELSE UNCHANGED engineVars

\* the knobs that the model turns, and the values it turns them to
KnobKeys == {"glideSpeed", "detune"}
KnobValues(key) == IF key = "glideSpeed" THEN {Ms(200)} ELSE {50 * Unit}

\* a drag of a knob outside learn mode: onChange -> setSettings
TurnKnob ==
  \E key \in KnobKeys : \E v \in KnobValues(key) :
    /\ ~isLearnModeActive
    /\ settings' = [settings EXCEPT ![key] = Set(v)]
    /\ SettingsEffect(settings')
    /\ Did("turnKnob")
    /\ UNCHANGED <<looperVars, isLearnModeActive, midiMappings, learningParam,
                   midiHandler, pendingHandlers, lastMessage>>

\* the Fine Tune slider: setSettings(p => ({...p, masterTune: parseInt(value)}))
TuneValues == {-20 * Unit}

TuneSlider ==
  \E v \in TuneValues :
    /\ settings' = [settings EXCEPT !["masterTune"] = Set(v)]
    /\ SettingsEffect(settings')
    /\ Did("tuneSlider")
    /\ UNCHANGED <<looperVars, isLearnModeActive, midiMappings, learningParam,
                   midiHandler, pendingHandlers, lastMessage>>

\* the glide switch: setSettings(p => ({ ...p, glide: !p.glide }))
ToggleGlide ==
  /\ settings' = [settings EXCEPT
                    !["glide"] = Set(IF settings["glide"].value = 1 THEN 0 ELSE 1)]
  /\ SettingsEffect(settings')
  /\ Did("toggleGlide")
  /\ UNCHANGED <<looperVars, isLearnModeActive, midiMappings, learningParam,
                 midiHandler, pendingHandlers, lastMessage>>

\* the value branch reaches updateNestedSetting
Applies(mappings, cc) ==
  /\ mappings[cc] # NoParam
  /\ \E p \in MAPPABLE_PARAMS : p.id = mappings[cc]

\* the value branch of handleMIDIMessage; mappings is the table the closure saw
ApplyController(s, mappings, cc, ccValue) ==
  LET paramPath == mappings[cc] IN
  IF paramPath = NoParam THEN s
  ELSE IF \E p \in MAPPABLE_PARAMS : p.id = paramPath
       THEN UpdateNestedSetting(s, paramPath,
              Rescale(CHOOSE p \in MAPPABLE_PARAMS : p.id = paramPath, ccValue))
       ELSE s

\* the handleMIDIMessage closure of a render
Closure(lp, mm) == [learningParam |-> lp, midiMappings |-> mm]

\* a render with new learningParam or midiMappings makes a new
\* handleMIDIMessage; the effect asks for MIDI access again and installs the
\* new closure when that promise resolves
Rerender(lp, mm) ==
  /\ learningParam' = lp
  /\ midiMappings' = mm
  /\ IF lp = learningParam /\ mm = midiMappings
     THEN pendingHandlers' = pendingHandlers
     ELSE /\ Len(pendingHandlers) < MaxPendingAttach
          /\ pendingHandlers' = Append(pendingHandlers, Closure(lp, mm))

\* requestMIDIAccess().then(...): input.onmidimessage = handleMIDIMessage
MidiAttach ==
  /\ pendingHandlers # <<>>
  /\ midiHandler' = <<Head(pendingHandlers)>>
  /\ pendingHandlers' = Tail(pendingHandlers)
  /\ Did("attach")
  /\ UNCHANGED <<engineVars, looperVars, isLearnModeActive, midiMappings,
                 learningParam, settings, lastMessage>>

\* the MIDI LEARN button
ToggleLearnMode ==
  /\ isLearnModeActive' = ~isLearnModeActive
  /\ Did("toggleLearn")
  /\ UNCHANGED <<engineVars, looperVars, midiMappings, learningParam, settings,
                 midiHandler, pendingHandlers, lastMessage>>

\* the close button of the learn banner
CloseLearnBanner ==
  /\ isLearnModeActive
  /\ isLearnModeActive' = FALSE
  /\ Rerender(NoParam, midiMappings)
  /\ Did("closeLearn")
  /\ UNCHANGED <<engineVars, looperVars, settings, midiHandler, lastMessage>>

\* a press on a knob while learn mode is on
SelectParam ==
  \E p \in ParamIds :
    /\ isLearnModeActive
    /\ Rerender(IF learningParam = p THEN NoParam ELSE p, midiMappings)
    /\ Did("selectParam")
    /\ UNCHANGED <<engineVars, looperVars, isLearnModeActive, settings,
                   midiHandler, lastMessage>>

\* the glide switch of the Controls that take part in learn mode: a press
\* arms or disarms the learn session of 'glide' while learn mode is on, and
\* flips settings.glide otherwise
GlideSwitch ==
  /\ IF isLearnModeActive
     THEN /\ Rerender(IF learningParam = "glide" THEN NoParam ELSE "glide",
                      midiMappings)
          /\ UNCHANGED <<settings, engineVars>>
     ELSE /\ settings' = [settings EXCEPT
                !["glide"] = Set(IF settings["glide"].value = 1 THEN 0 ELSE 1)]
          /\ SettingsEffect(settings')
          /\ UNCHANGED <<midiMappings, learningParam, pendingHandlers>>
  /\ Did("glideSwitch")
  /\ UNCHANGED <<looperVars, isLearnModeActive, midiHandler, lastMessage>>

\* the 0xB0 branch of handleMIDIMessage, run by the closure that is installed
HandleController(cc, ccValue) ==
  /\ midiHandler # <<>>
  /\ LET h == midiHandler[1] IN
     IF h.learningParam # NoParam
     THEN /\ Rerender(NoParam, LearnOp(midiMappings, cc, h.learningParam))
          /\ settings' = settings
          /\ UNCHANGED engineVars
     ELSE /\ settings' = ApplyController(settings, h.midiMappings, cc, ccValue)
          /\ IF Applies(h.midiMappings, cc) THEN SettingsEffect(settings')
             ELSE UNCHANGED engineVars
          /\ UNCHANGED <<midiMappings, learningParam, pendingHandlers>>
  /\ lastMessage' = [cc |-> cc, value |-> ccValue]
  /\ UNCHANGED <<isLearnModeActive, midiHandler>>

\* a continuous-controller message (command 0xB0) of a controller at its top
ControlChange ==
  \E cc \in CCs, ccValue \in CCValues :
    /\ HandleController(cc, ccValue)
    /\ Did("controlChange")
    /\ UNCHANGED looperVars

\* a continuous-controller message of controller 1 with any data byte
ControllerByte ==
  \E ccValue \in DataBytes :
    /\ HandleController(1, ccValue)
    /\ Did("controlChange")
    /\ UNCHANGED looperVars

\* status bytes of the messages sent: note-off on channel 1, note-on and
\* control change on channel 4, and a pitch bend
Statuses == {128, 147, 179, 224}
Velocities == {0, 127}
\* getNoteLabel and midiNoteToFrequency for the note that the controller
\* keyboard plays
Notes == {69}
GetNoteLabel(n) == IF n = 69 THEN "A4" ELSE "C4"
NoMidi == [status |-> 0, data1 |-> 0, data2 |-> 0]

\* envelope.release of the settings, which no MIDI message of the model
\* changes
DefaultRelease == SetMin(ReleaseMs)

\* a dispatch on the whole status byte
CommandOfChannel1(status) == status

\* command = status & 0xF0
Command(status) == (status \div 16) * 16

\* handleMIDIMessage(message), run by the closure that is installed
MidiMessage ==
  \E status \in Statuses, data2 \in Velocities :
    LET command == Command(status) IN
    /\ midiHandler # <<>>
    /\ IF command = 144 /\ data2 > 0
       THEN \E n \in Notes :
              /\ Cardinality(voices) < MaxVoices
              /\ SetEngine(PlayNoteOp(Engine, FreqOf(GetNoteLabel(n)),
                                      GetNoteLabel(n), Synth(settings, DefaultRelease)))
              /\ OnNoteStart(GetNoteLabel(n), FreqOf(GetNoteLabel(n)))
              /\ lastMidi' = [status |-> status, data1 |-> n, data2 |-> data2]
              /\ UNCHANGED <<midiVars, isRecording, loops, undoStack,
                             redoStack, recElapsed, nextId, playbackVars,
                             redoDepth>>
       ELSE IF command = 128 \/ (command = 144 /\ data2 = 0)
       THEN \E n \in Notes :
              /\ SetEngine(StopNoteOp(Engine, GetNoteLabel(n),
                                      DefaultRelease))
              /\ lastMidi' = [status |-> status, data1 |-> n, data2 |-> data2]
              /\ UNCHANGED <<midiVars, looperVars>>
       ELSE IF command = 176
       THEN \E cc \in CCs :
              /\ HandleController(cc, data2)
              /\ lastMidi' = [status |-> status, data1 |-> cc, data2 |-> data2]
              /\ UNCHANGED looperVars
       ELSE /\ lastMidi' = [status |-> status, data1 |-> 0, data2 |-> data2]
            /\ UNCHANGED <<engineVars, midiVars, looperVars>>
    /\ Did("midiMessage")

\* the delete button of one entry of the mapping overview
DeleteMapping ==
  \E cc \in CCs :
    /\ midiMappings[cc] # NoParam
    /\ Rerender(learningParam, [midiMappings EXCEPT ![cc] = NoParam])
    /\ Did("deleteMapping")
    /\ UNCHANGED <<engineVars, looperVars, isLearnModeActive, settings,
                   midiHandler, lastMessage>>

\* the Clear All button of the mapping overview
ClearMappings ==
  /\ Rerender(learningParam, NoMappings)
  /\ Did("clearMappings")
  /\ UNCHANGED <<engineVars, looperVars, isLearnModeActive, settings,
                 midiHandler, lastMessage>>

\* ========================================================================
\* Keyboard component: physical keys, mouse and touch
\* ========================================================================
\* where the pointer can be: outside the keyboard, on its padding, on a key
Padding == "pad"
Outside == "out"
Places == {Outside, Padding} \cup Labels

\* the component's own state, with the calls it has made in this handler;
\* fails: onNoteStart will throw, because playNote cannot create its context
Keyboard == [pressed |-> pressedKeys, isPanning |-> isPanning,
             hasMoved |-> hasMoved, emits |-> <<>>,
             fails |-> ~ctx /\ ~audioOk]

Call(kind, label) == [kind |-> kind, label |-> label]

\* handleKeyStart(noteLabel, freq): onNoteStart, then pressedKeysRef.add; an
\* exception of onNoteStart ends the handler
HandleKeyStart(k, label) ==
  IF label \in k.pressed THEN k
  ELSE IF k.fails THEN [k EXCEPT !.emits = Append(@, Call("start", label))]
  ELSE [k EXCEPT !.pressed = @ \cup {label},
                 !.emits = Append(@, Call("start", label))]

\* handleKeyEnd(noteLabel)
HandleKeyEnd(k, label) ==
  IF label \notin k.pressed THEN k
  ELSE [k EXCEPT !.pressed = @ \ {label},
                 !.emits = Append(@, Call("end", label))]

\* handleNoteAction(noteLabel, freq, isStart)
HandleNoteAction(k, label, isStart) ==
  IF k.isPanning /\ k.hasMoved THEN k
  ELSE IF isStart THEN HandleKeyStart(k, label)
       ELSE HandleKeyEnd(k, label)

StartPanning(k) == [k EXCEPT !.isPanning = TRUE, !.hasMoved = FALSE]

\* onPanning(clientX); far: the pointer is more than 5 px from the drag start
OnPanning(k, far) ==
  IF ~k.isPanning THEN k ELSE [k EXCEPT !.hasMoved = @ \/ far]

StopPanning(k) == [k EXCEPT !.isPanning = FALSE]

\* handleNoteStart and handleNoteEnd of the App for the calls of a handler,
\* in their order
RECURSIVE Deliver(_, _, _)
Deliver(e, calls, s) ==
  IF calls = <<>> THEN e
  ELSE LET c == Head(calls) IN
       Deliver(IF c.kind = "start"
               THEN PlayNoteOp(e, FreqOf(c.label), c.label, s)
               ELSE StopNoteOp(e, c.label, s.release),
               Tail(calls), s)

Starts(calls) == {c.label : c \in {d \in Range(calls) : d.kind = "start"}}
Ends(calls) == {c.label : c \in {d \in Range(calls) : d.kind = "end"}}

\* the component after a handler, and what its calls did to the App
SetKeyboard(k) ==
  /\ pressedKeys' = k.pressed
  /\ isPanning' = k.isPanning
  /\ hasMoved' = k.hasMoved
  /\ emitted' = k.emits
  /\ held' = (held \ Ends(k.emits)) \cup Starts(k.emits)
  /\ Starts(k.emits) # {} => Cardinality(voices) < MaxVoices
  /\ SetEngine(Deliver(Engine, k.emits, Synth(settings, DefaultRelease)))
  /\ IF Starts(k.emits) # {} /\ ~k.fails
     THEN LET l == CHOOSE x \in Starts(k.emits) : TRUE IN
          /\ isRecording => Len(recordedEvents) < MaxEvents
          /\ OnNoteStart(l, FreqOf(l))
     ELSE UNCHANGED <<latestNote, recordedEvents, heard>>
  /\ UNCHANGED <<isRecording, loops, undoStack, redoStack, recElapsed, nextId,
                 playbackVars, redoDepth>>

\* keydown of the physical key bound to a label (not a repeat)
KeyDown ==
  \E label \in Labels :
    /\ SetKeyboard(HandleKeyStart(Keyboard, label))
    /\ Did("keyDown")
    /\ UNCHANGED <<pointer, buttons, touches>>

\* keyup of the physical key bound to a label
KeyUp ==
  \E label \in Labels :
    /\ SetKeyboard(HandleKeyEnd(Keyboard, label))
    /\ Did("keyUp")
    /\ UNCHANGED <<pointer, buttons, touches>>

\* the left button goes down: on a key its onMouseDown, which stops the
\* propagation; on the padding the container's onMouseDown
MouseDown ==
  /\ ~buttons
  /\ pointer # Outside
  /\ buttons' = TRUE
  /\ SetKeyboard(IF pointer \in Labels
                 THEN HandleNoteAction(Keyboard, pointer, TRUE)
                 ELSE StartPanning(Keyboard))
  /\ Did("mouseDown")
  /\ UNCHANGED <<pointer, touches>>

\* the left button goes up: on a key its onMouseUp, which stops the
\* propagation; on the padding the container's onMouseUp
MouseUp ==
  /\ buttons
  /\ buttons' = FALSE
  /\ SetKeyboard(IF pointer \in Labels
                 THEN HandleNoteAction(Keyboard, pointer, FALSE)
                 ELSE IF pointer = Padding THEN StopPanning(Keyboard)
                 ELSE Keyboard)
  /\ Did("mouseUp")
  /\ UNCHANGED <<pointer, touches>>

\* the pointer moves: onMouseLeave of the key it leaves, onMouseEnter of the
\* key it enters (with e.buttons === 1), then the container's onMouseLeave or
\* onMouseMove
MouseMove ==
  \E to \in Places, far \in BOOLEAN :
    /\ pointer # Outside \/ to # Outside
    /\ pointer' = to
    /\ LET k1 == IF pointer \in Labels /\ to # pointer
                 THEN HandleNoteAction(Keyboard, pointer, FALSE)
                 ELSE Keyboard
           k2 == IF to \in Labels /\ to # pointer /\ buttons
                 THEN HandleNoteAction(k1, to, TRUE)
                 ELSE k1
       IN SetKeyboard(IF to = Outside THEN StopPanning(k2)
                      ELSE OnPanning(k2, far))
    /\ Did("mouseMove")
    /\ UNCHANGED <<buttons, touches>>

\* a finger comes down: on a key its onTouchStart, which stops the
\* propagation; on the padding the container's onTouchStart
TouchStart ==
  \E at \in {Padding} \cup Labels :
    /\ at \notin touches
    /\ touches' = touches \cup {at}
    /\ SetKeyboard(IF at \in Labels
                   THEN HandleNoteAction(Keyboard, at, TRUE)
                   ELSE StartPanning(Keyboard))
    /\ Did("touchStart")
    /\ UNCHANGED <<pointer, buttons>>

\* a finger moves: touchmove goes to the element where the touch began and
\* bubbles to the container's onTouchMove
TouchMove ==
  \E at \in touches, far \in BOOLEAN :
    /\ SetKeyboard(OnPanning(Keyboard, far))
    /\ Did("touchMove")
    /\ UNCHANGED <<pointer, buttons, touches>>

\* a finger lifts: touchend goes to the element where the touch began
TouchEnd ==
  \E at \in touches :
    /\ touches' = touches \ {at}
    /\ SetKeyboard(IF at \in Labels
                   THEN HandleNoteAction(Keyboard, at, FALSE)
                   ELSE StopPanning(Keyboard))
    /\ Did("touchEnd")
    /\ UNCHANGED <<pointer, buttons>>

\* ========================================================================
\* App and PresetManager: the preset library
\* ========================================================================
MaxPresets == 2
NoName == "undefined"
DefaultPresetName == "Default Lead"
NoFile == [kind |-> "none", name |-> NoName, settings |-> UndefinedSettings]

\* a preset with the glide switch on and a glide time of 1 ms
FastGlide == [DefaultSettings EXCEPT !["glide"] = Set(1),
                                     !["glideSpeed"] = Set(Ms(1))]

\* the files that the model imports: text that is no JSON, the JSON text
\* null, and JSON objects with or without a name and settings
Files ==
  {[kind |-> k, name |-> NoName, settings |-> UndefinedSettings]
     : k \in {"garbage", "null"}}
  \cup {[kind |-> "object", name |-> n, settings |-> s]
          : n \in {"Bass", NoName}, s \in {FastGlide, UndefinedSettings}}
SaveNames == {"Lead"}

\* preset.name + " (Import)"
ImportName(n) == IF n = NoName THEN "undefined (Import)" ELSE "Bass (Import)"

\* the App renders: Controls reads the fields of settings on every render
Rendering == settings # UndefinedSettings

\* reader.onload of the Import input: JSON.parse, onLoadPreset (loadPreset:
\* setSettings, setPresetName), then onSavePreset(name + " (Import)"), which
\* stores the settings of the current render under that name and makes it the
\* preset name, as handleSaveCurrent does; the catch shows the alert.
\* JSON.parse throws on garbage, and preset.settings throws on null.
ImportFile(file) ==
  IF file.kind \in {"garbage", "null"}
  THEN /\ alerted' = TRUE
       /\ UNCHANGED <<settings, presetName, savedPresets, engineVars>>
  ELSE /\ settings' = file.settings
       /\ presetName' = ImportName(file.name)
       /\ savedPresets' = <<[name |-> ImportName(file.name),
                             settings |-> settings]>> \o savedPresets
       /\ alerted' = FALSE
       /\ SettingsEffect(settings')

ImportPreset ==
  \E file \in Files :
    /\ Rendering
    /\ Len(savedPresets) < MaxPresets
    /\ ImportFile(file)
    /\ lastImport' = file
    /\ Did("importPreset")
    /\ UNCHANGED <<looperVars, isLearnModeActive, midiMappings, learningParam,
                   midiHandler, pendingHandlers, lastMessage>>

\* loadPreset(preset), from a click on an entry of the library
LoadPreset ==
  \E i \in 1..Len(savedPresets) :
    /\ Rendering
    /\ settings' = savedPresets[i].settings
    /\ presetName' = savedPresets[i].name
    /\ SettingsEffect(settings')
    /\ Did("loadPreset")
    /\ UNCHANGED <<looperVars, isLearnModeActive, midiMappings, learningParam,
                   midiHandler, pendingHandlers, lastMessage, savedPresets,
                   lastImport>>

\* handleSaveCurrent()
SaveCurrent ==
  \E name \in SaveNames :
    /\ Rendering
    /\ Len(savedPresets) < MaxPresets
    /\ savedPresets' = <<[name |-> name, settings |-> settings]>>
                         \o savedPresets
    /\ presetName' = name
    /\ Did("saveCurrent")
    /\ UNCHANGED <<engineVars, looperVars, lastImport>>

\* the delete button of an entry of the library
DeletePreset ==
  \E i \in 1..Len(savedPresets) :
    /\ Rendering
    /\ savedPresets' = SubSeq(savedPresets, 1, i - 1)
                         \o SubSeq(savedPresets, i + 1, Len(savedPresets))
    /\ Did("deletePreset")
    /\ UNCHANGED <<engineVars, looperVars, presetName, lastImport>>

\* ========================================================================
\* Specifications
\* ========================================================================
\* the engine after its constructor
EngineFresh ==
  /\ ctx = FALSE
  /\ activeNotes = [l \in Labels |-> NoVoice]
  /\ lastFrequency = 0
  /\ voices = {}
  /\ teardowns = {}
  /\ nodes = NoNodes
  /\ thrown = FALSE
  /\ torn = <<>>

\* a browser in which an AudioContext can be constructed
EngineIdle == EngineFresh /\ audioOk = TRUE

\* the Keyboard has mounted; the pointer is outside it
KeyboardIdle ==
  /\ pressedKeys = {}
  /\ isPanning = FALSE
  /\ hasMoved = FALSE
  /\ pointer = "out"
  /\ buttons = FALSE
  /\ touches = {}
  /\ emitted = <<>>
  /\ held = {}

LooperIdle ==
  /\ isRecording = FALSE
  /\ playingLoopId = NoLoop
  /\ loops = <<>>
  /\ recordedEvents = <<>>
  /\ loopProgress = <<>>
  /\ undoStack = <<>>
  /\ redoStack = <<>>
  /\ recElapsed = 0
  /\ playbackTimers = <<>>
  /\ progressIntervals = {}
  /\ latestNote = NoNote
  /\ nextId = 1
  /\ heard = <<>>
  /\ redoDepth = 0
  /\ playClock = NoClock
  /\ noteOns = 0

\* the preset state of a mounted App whose localStorage holds no preset
PresetIdle ==
  /\ presetName = DefaultPresetName
  /\ savedPresets = <<>>
  /\ alerted = FALSE
  /\ lastImport = NoFile

\* the App has mounted; its first handleMIDIMessage waits for MIDI access
MidiFresh ==
  /\ isLearnModeActive = FALSE
  /\ midiMappings = DefaultMappings
  /\ learningParam = NoParam
  /\ settings = DefaultSettings
  /\ midiHandler = <<>>
  /\ pendingHandlers = <<Closure(NoParam, DefaultMappings)>>
  /\ lastMessage = [cc |-> 0, value |-> 0]
  /\ lastMidi = NoMidi

\* a mount that found no preset in localStorage
MidiIdle == MidiFresh /\ PresetIdle

\* a preset with the glide switch on and a glide time of 200 ms
SlowGlide == [DefaultSettings EXCEPT !["glide"] = Set(1),
                                     !["glideSpeed"] = Set(Ms(200))]

\* a mount that found two presets in localStorage
StoredPresets == <<[name |-> "Bass", settings |-> FastGlide],
                   [name |-> "Lead", settings |-> SlowGlide]>>

\* ---- the audio engine alone ----
InitEngine ==
  EngineIdle /\ KeyboardIdle /\ LooperIdle /\ MidiIdle /\ lastOp = "init" /\ prevPlaying = NoLoop

NextEngine == EnginePlayNote \/ EngineStopNote \/ EngineTeardown \/ EngineAdvance

SpecEngine == InitEngine /\ [][NextEngine]_vars

\* ---- the engine under changing settings, with or without audio; no time
\* passes, so every voice stays until the voice bound is reached ----
InitSynth ==
  /\ EngineFresh /\ KeyboardIdle
  /\ audioOk \in BOOLEAN
  /\ LooperIdle /\ MidiIdle /\ lastOp = "init" /\ prevPlaying = NoLoop

NextSynth ==
  EnginePlayNote \/ EngineStopNote \/ TurnKnob \/ ToggleGlide

SpecSynth == InitSynth /\ [][NextSynth]_vars

\* ---- the voices of the engine under the detune knob and the Fine Tune
\* slider; no time passes ----
NextTune ==
  EnginePlayNote \/ EngineStopNote \/ TurnKnob \/ TuneSlider

SpecTune == InitEngine /\ [][NextTune]_vars

\* ---- the glide of the engine under the stored presets and the glide
\* switch; no time passes ----
InitGlide ==
  /\ EngineIdle /\ KeyboardIdle
  /\ LooperIdle /\ MidiFresh /\ lastOp = "init" /\ prevPlaying = NoLoop
  /\ presetName = DefaultPresetName
  /\ savedPresets = StoredPresets
  /\ alerted = FALSE
  /\ lastImport = NoFile

NextGlide ==
  EnginePlayNote \/ EngineStopNote \/ ToggleGlide \/ LoadPreset

SpecGlide == InitGlide /\ [][NextGlide]_vars

\* ---- the value branch of handleMIDIMessage on its own: the table read from
\* localStorage binds controller 1 to one parameter, the handler is attached,
\* and controller 1 sends any byte ----
Bindable == {p.id : p \in MAPPABLE_PARAMS} \cup {"glide"}
BoundTo(p) == [cc \in CCs |-> IF cc = 1 THEN p ELSE NoParam]

InitController ==
  /\ EngineIdle /\ KeyboardIdle /\ LooperIdle /\ lastOp = "init" /\ prevPlaying = NoLoop
  /\ isLearnModeActive = FALSE
  /\ learningParam = NoParam
  /\ settings = DefaultSettings
  /\ midiMappings \in {BoundTo(p) : p \in Bindable}
  /\ midiHandler = <<Closure(NoParam, midiMappings)>>
  /\ pendingHandlers = <<>>
  /\ lastMessage = [cc |-> 0, value |-> 0]
  /\ lastMidi = NoMidi
  /\ PresetIdle

NextController == ControllerByte

SpecController == InitController /\ [][NextController]_vars

\* ---- learn mode with the glide switch as the only learnable control ----
InitGlideLearn == InitEngine

NextGlideLearn ==
  MidiAttach \/ ToggleLearnMode \/ GlideSwitch \/ ControlChange \/ DeleteMapping

SpecGlideLearn == InitGlideLearn /\ [][NextGlideLearn]_vars

\* ---- every kind of MIDI message, with the learn controls; no time passes
\* ----
\* learn mode is on and the gain knob has just been pressed: the handler
\* that is attached saw no learn session yet, the one that did waits for
\* its MIDI access
InitDispatch ==
  /\ EngineIdle /\ KeyboardIdle /\ LooperIdle /\ prevPlaying = NoLoop
  /\ lastOp = "selectParam"
  /\ isLearnModeActive = TRUE
  /\ midiMappings = DefaultMappings
  /\ learningParam = "gain"
  /\ settings = DefaultSettings
  /\ midiHandler = <<Closure(NoParam, DefaultMappings)>>
  /\ pendingHandlers = <<Closure("gain", DefaultMappings)>>
  /\ lastMessage = [cc |-> 0, value |-> 0]
  /\ lastMidi = NoMidi
  /\ PresetIdle

NextDispatch == MidiAttach \/ MidiMessage

SpecDispatch == InitDispatch /\ [][NextDispatch]_vars

\* ---- recording, editing and history, without playback ----
\* ---- the preset library: import, load, save and delete ----
InitPreset == InitEngine

NextPreset == ImportPreset \/ LoadPreset \/ SaveCurrent \/ DeletePreset

SpecPreset == InitPreset /\ [][NextPreset]_vars

InitRec == InitEngine

NextRec ==
  \/ NoteStart
  \/ StartRecording
  \/ StopRecording(MaxMutations)
  \/ CycleMode(MaxMutations)
  \/ SaveEdit(MaxMutations)
  \/ DeleteLoop(MaxMutations)
  \/ ClearAllLoops(MaxMutations)
  \/ PerformUndo
  \/ PerformRedo
  \/ Advance

SpecRec == InitRec /\ [][NextRec]_vars

\* ---- playback of two recorded loops ----
EventC4(ts) == [note |-> "C4", frequency |-> FreqOf("C4"), timestamp |-> ts]
EventA4(ts) == [note |-> "A4", frequency |-> FreqOf("A4"), timestamp |-> ts]
LoopA == NewLoop(1, 1, <<EventC4(0), EventA4(500)>>, 1000)
LoopB == NewLoop(2, 2, <<EventA4(0)>>, 500)

\* the state after the loops of ls have been recorded and committed; played
\* are the note-starts of the last session (LoopB is the recording that holds
\* nothing but the last note of LoopA, picked up when the recording started)
Recorded(ls, history, played) ==
  /\ EngineIdle /\ KeyboardIdle
  /\ MidiIdle
  /\ isRecording = FALSE
  /\ playingLoopId = NoLoop
  /\ loops = ls
  /\ recordedEvents = Last(ls).events
  /\ heard = played
  /\ loopProgress = <<>>
  /\ undoStack = history
  /\ redoStack = <<>>
  /\ recElapsed = 0
  /\ playbackTimers = <<>>
  /\ progressIntervals = {}
  /\ latestNote = [note |-> Last(Last(ls).events).note,
                   frequency |-> Last(Last(ls).events).frequency]
  /\ nextId = Len(ls) + 1
  /\ redoDepth = 0
  /\ lastOp = "commit"
  /\ prevPlaying = NoLoop

\* the stopwatch is off
Untimed == playClock = NoClock /\ noteOns = 0

HistoryAB == << <<>>, <<LoopA>> >>
InitPlay == Recorded(<<LoopA, LoopB>>, HistoryAB, <<>>) /\ Untimed

PlayCap == Len(HistoryAB) + MaxMutations

NextPlay ==
  \/ PlayLoop
  \/ CycleMode(PlayCap)
  \/ DeleteLoop(PlayCap)
  \/ ClearAllLoops(PlayCap)
  \/ PerformUndo
  \/ PerformRedo
  \/ FirePlay
  \/ FireStop
  \/ FireEnd
  \/ FireProgress
  \/ Advance

SpecPlay == InitPlay /\ [][NextPlay]_vars

\* ---- edits of two recorded loops while one of them plays; the history
\* has room for one full round of cycleMode ----
LoopsCap == Len(HistoryAB) + Len(LoopModes)

NextLoops ==
  \/ PlayLoop
  \/ CycleMode(LoopsCap)
  \/ SaveEdit(LoopsCap)
  \/ DeleteLoop(LoopsCap)
  \/ FirePlay
  \/ FireStop
  \/ FireEnd
  \/ FireProgress
  \/ Advance

SpecLoops == InitPlay /\ [][NextLoops]_vars

\* ---- a long editing history of one recorded loop ----
InitHistory == Recorded(<<LoopA>>, << <<>> >>, LoopA.events) /\ Untimed

NoCap == HistoryLimit + 1

NextHistory ==
  \/ CycleMode(NoCap)
  \/ DeleteLoop(NoCap)
  \/ ClearAllLoops(NoCap)
  \/ PerformUndo
  \/ PerformRedo

SpecHistory == InitHistory /\ [][NextHistory]_vars

\* ---- commits and edits, every recording session left to its end ----
\* the first session is about to end: C4 at 0 ms and A4 at 500 ms have been
\* played, 1000 ms have passed; later sessions record no key press
InitEdit ==
  /\ EngineIdle /\ KeyboardIdle
  /\ MidiIdle
  /\ isRecording = TRUE
  /\ playingLoopId = NoLoop
  /\ loops = <<>>
  /\ recordedEvents = LoopA.events
  /\ heard = LoopA.events
  /\ loopProgress = <<>>
  /\ undoStack = <<>>
  /\ redoStack = <<>>
  /\ recElapsed = LoopA.duration
  /\ playbackTimers = <<>>
  /\ progressIntervals = {}
  /\ latestNote = [note |-> "A4", frequency |-> FreqOf("A4")]
  /\ nextId = 1
  /\ redoDepth = 0
  /\ lastOp = "noteStart"
  /\ prevPlaying = NoLoop
  /\ Untimed

\* undo stack length allowed in this specification
EditCap == MaxMutations + 2

NextEdit ==
  \/ StartRecording
  \/ StopRecording(EditCap)
  \/ CycleMode(EditCap)
  \/ SaveEdit(EditCap)
  \/ DeleteLoop(EditCap)
  \/ ClearAllLoops(EditCap)
  \/ PerformUndo
  \/ PerformRedo
  \/ Advance

SpecEdit == InitEdit /\ [][NextEdit]_vars

\* ---- the Keyboard component under physical keys, mouse and touch; no
\* time passes ----
InitKeyboard ==
  /\ EngineFresh /\ KeyboardIdle
  /\ audioOk \in BOOLEAN
  /\ LooperIdle /\ MidiIdle /\ lastOp = "init" /\ prevPlaying = NoLoop

NextKeyboard ==
  \/ KeyDown
  \/ KeyUp
  \/ MouseDown
  \/ MouseUp
  \/ MouseMove
  \/ TouchStart
  \/ TouchMove
  \/ TouchEnd

SpecKeyboard == InitKeyboard /\ [][NextKeyboard]_vars

\* ---- keys held on the Keyboard while a MIDI controller plays; no time
\* passes ----
NextHeld == KeyDown \/ KeyUp \/ MidiAttach \/ MidiMessage

SpecHeld == InitEngine /\ [][NextHeld]_vars

\* ---- the shared nodes of the engine under a mapped MIDI controller; no
\* time passes ----
NextNodes == MidiAttach \/ ControlChange \/ EnginePlayNote \/ EngineStopNote

SpecNodes == InitEngine /\ [][NextNodes]_vars

\* ---- commits into a collection that earlier sessions have filled: two
\* loops are there, a third session is about to end ----
OldA == [LoopA EXCEPT !.id = 11]
OldB == [LoopB EXCEPT !.id = 12]

InitNames ==
  /\ EngineIdle /\ KeyboardIdle
  /\ MidiIdle
  /\ isRecording = TRUE
  /\ playingLoopId = NoLoop
  /\ loops = <<OldA, OldB>>
  /\ recordedEvents = LoopA.events
  /\ heard = LoopA.events
  /\ loopProgress = <<>>
  /\ undoStack = << <<>>, <<OldA>> >>
  /\ redoStack = <<>>
  /\ recElapsed = LoopA.duration
  /\ playbackTimers = <<>>
  /\ progressIntervals = {}
  /\ latestNote = [note |-> "A4", frequency |-> FreqOf("A4")]
  /\ nextId = 1
  /\ redoDepth = 0
  /\ lastOp = "noteStart"
  /\ prevPlaying = NoLoop
  /\ Untimed

NextNames ==
  \/ StartRecording
  \/ StopRecording(EditCap)
  \/ DeleteLoop(EditCap)
  \/ PerformUndo
  \/ PerformRedo
  \/ Advance

SpecNames == InitNames /\ [][NextNames]_vars

\* ---- playback of the two-event loop in 'repeat' mode against the clock ----
InitTimed ==
  /\ Recorded(<<LoopA>>, << <<>> >>, LoopA.events)
  /\ playClock = 0
  /\ noteOns = 0

NextTimed ==
  \/ PlayLoop
  \/ FirePlay
  \/ FireStop
  \/ FireEnd
  \/ FireProgress
  \/ Advance

SpecTimed == InitTimed /\ [][NextTimed]_vars

\* ---- the controller mapping of the App ----
InitMidi == InitEngine

NextMidi ==
  \/ MidiAttach
  \/ ToggleLearnMode
  \/ CloseLearnBanner
  \/ SelectParam
  \/ ControlChange
  \/ DeleteMapping
  \/ ClearMappings

SpecMidi == InitMidi /\ [][NextMidi]_vars

\* ========================================================================
\* Properties
\* ========================================================================

\* ------------------------------------------------------------------------
\* C1: at most one live voice per note label: every voice that sounds (has
\* not been released) is the one registered under its label, and a voice
\* that is no longer registered is releasing with its teardown pending.
\* ------------------------------------------------------------------------
C1_OneLiveVoicePerLabel ==
  /\ \A v \in voices :
       \/ v.state = "sounding" /\ activeNotes[v.label] = v.id
       \/ /\ v.state = "releasing"
          /\ activeNotes[v.label] # v.id
          /\ \E t \in teardowns : t.voice = v.id
  /\ \A l \in Labels :
       /\ Cardinality({v \in voices : v.label = l /\ v.state = "sounding"}) <= 1
       /\ activeNotes[l] # NoVoice =>
            \E v \in voices : v.id = activeNotes[l] /\ v.label = l

\* a label was started twice with no stop in between: the old voice is
\* releasing while the new one is registered
C1_Witness ==
  /\ lastOp = "playNote"
  /\ \E l \in Labels :
       /\ \E v \in voices : v.label = l /\ v.state = "releasing"
       /\ \E v \in voices : v.label = l /\ v.state = "sounding"
                            /\ activeNotes[l] = v.id
\* ------------------------------------------------------------------------
\* C2: every call of stopPlayback leaves no timeout and no progress interval
\* of the stopped session pending, so none of its callbacks can run: after
\* toggle-stop, clear-all, undo, redo or the deletion of the playing loop
\* nothing is pending, progress is empty and no loop is playing; after the
\* start of another loop the only pending callbacks are those of the first
\* cycle of the new session.
\* ------------------------------------------------------------------------
StopOps == {"toggleStop", "clearAllLoops", "undo", "redo"}

C2_StopCancelsSession ==
  [][/\ (\/ lastOp' \in StopOps
         \/ /\ lastOp' = "deleteLoop"
            /\ playingLoopId # NoLoop
            /\ playingLoopId \notin LoopIds(loops'))
        => /\ playbackTimers' = <<>>
           /\ progressIntervals' = {}
           /\ loopProgress' = <<>>
           /\ playingLoopId' = NoLoop
     /\ lastOp' = "playLoop"
        => /\ playingLoopId' \in LoopIds(loops)
           /\ Len(playbackTimers') =
                2 * Len(FindLoop(loops, playingLoopId').events) + 1
           /\ \A k \in 1..Len(playbackTimers') :
                playbackTimers'[k].loop = playingLoopId'
           /\ Cardinality(progressIntervals') = 1
           /\ \A i \in progressIntervals' :
                i.loop = playingLoopId' /\ i.elapsed = 0
           /\ loopProgress' = <<>>
    ]_vars

\* a playing loop was stopped by pressing its play button again
C2_Witness ==
  /\ lastOp = "toggleStop"
  /\ prevPlaying # NoLoop
  /\ playingLoopId = NoLoop
  /\ playbackTimers = <<>>

\* ------------------------------------------------------------------------
\* C3: every note-on delivered by loop playback is followed by its note-off
\* 300 ms later: when a note-on timeout fires its note-off timeout is pending
\* with 300 ms left, and a pending note-off of a delivered note-on stays
\* pending until it fires, whatever action is taken.
\* ------------------------------------------------------------------------
OwedStops(ts) ==
  {k \in 1..Len(ts) : ts[k].kind = "stop" /\ (k = 1 \/ ts[k - 1].kind # "play")}

C3_NoteOffFollowsNoteOn ==
  [][/\ \A k \in OwedStops(playbackTimers) :
          \/ /\ lastOp' = "noteOff"
             /\ playbackTimers[k].due = 0
          \/ \E j \in 1..Len(playbackTimers') :
               /\ playbackTimers'[j].kind = "stop"
               /\ playbackTimers'[j].note = playbackTimers[k].note
               /\ playbackTimers'[j].due <= playbackTimers[k].due
     /\ lastOp' = "noteOn"
        => \E j \in 1..Len(playbackTimers') :
             /\ playbackTimers'[j].kind = "stop"
             /\ playbackTimers'[j].note = latestNote'.note
             /\ playbackTimers'[j].due = NoteOffDelay
    ]_vars

\* ------------------------------------------------------------------------
\* C4: only the loop in the Playing state has scheduled activity: every
\* pending note-on timeout, cycle-end timeout and progress interval belongs
\* to playingLoopId, there is at most one progress interval, and all pending
\* timeouts belong to one loop.
\* ------------------------------------------------------------------------
C4_OnlyPlayingLoopScheduled ==
  /\ \A k \in 1..Len(playbackTimers) :
       /\ playbackTimers[k].kind \in {"play", "end"}
            => playbackTimers[k].loop = playingLoopId
       /\ playbackTimers[k].kind = "stop"
            => playingLoopId \in {NoLoop, playbackTimers[k].loop}
       /\ playbackTimers[k].loop = playbackTimers[1].loop
  /\ \A i \in progressIntervals : i.loop = playingLoopId
  /\ Cardinality(progressIntervals) <= 1
  /\ playingLoopId # NoLoop => Cardinality(progressIntervals) = 1

\* loop B was started while loop A was playing
C4_Witness ==
  /\ lastOp = "playLoop"
  /\ prevPlaying # NoLoop
  /\ playingLoopId # NoLoop
  /\ prevPlaying # playingLoopId

\* ------------------------------------------------------------------------
\* C5: every mutating action (commit, rename, delete, clear-all, mode cycle)
\* leaves the pre-action collection on top of the undo stack, keeps the
\* entries below it, and empties the redo stack; the redo stack is non-empty
\* only if an undo has happened since the last mutating action.
\* ------------------------------------------------------------------------
MutatingOps == {"commit", "saveEdit", "deleteLoop", "clearAllLoops", "cycleMode"}

C5_MutationsCheckpoint ==
  /\ [][lastOp' \in MutatingOps
          => /\ Len(undoStack') > 0
             /\ Last(undoStack') = loops
             /\ Len(undoStack) < HistoryLimit => Front(undoStack') = undoStack
             /\ redoStack' = <<>>
       ]_vars
  /\ [](redoStack # <<>> => redoDepth > 0)

\* a mode cycle was made after an earlier checkpoint
C5_Witness ==
  /\ lastOp = "cycleMode"
  /\ Len(undoStack) >= 2
  /\ Last(undoStack) # <<>>
  /\ Last(undoStack) # loops
  /\ redoStack = <<>>

\* ------------------------------------------------------------------------
\* C6: the undo stack never holds more than 20 snapshots, and a push onto a
\* full stack drops the oldest snapshot and keeps the 20 most recent ones in
\* their order.
\* ------------------------------------------------------------------------
C6_HistoryBounded ==
  /\ [](Len(undoStack) <= HistoryLimit)
  /\ [][(lastOp' \in MutatingOps /\ Len(undoStack) = HistoryLimit)
          => undoStack' = Append(Tail(undoStack), loops)
       ]_vars

\* the stack is full after a push that evicted the initial empty collection
C6_Witness ==
  /\ lastOp \in MutatingOps
  /\ Len(undoStack) = HistoryLimit
  /\ undoStack[1] # <<>>

\* ------------------------------------------------------------------------
\* C7: undo and redo move a cursor over one fixed sequence of collections
\* (undo stack, current collection, redo stack reversed): an undo restores
\* the collection on top of the undo stack and moves the cursor one back, a
\* redo restores the one on top of the redo stack and moves it one forward,
\* and a redo right after an undo gives back the state before the undo.
\* ------------------------------------------------------------------------
Reverse(s) == [i \in 1..Len(s) |-> s[Len(s) + 1 - i]]
Timeline(h) == h.undoStack \o <<h.loops>> \o Reverse(h.redoStack)
HistoryAfter == [undoStack |-> undoStack', loops |-> loops',
                 redoStack |-> redoStack']

C7_UndoRedoSymmetry ==
  /\ [][/\ lastOp' = "undo"
           => /\ loops' = Last(undoStack)
              /\ Len(undoStack') = Len(undoStack) - 1
              /\ Timeline(HistoryAfter) = Timeline(History)
        /\ lastOp' = "redo"
           => /\ loops' = Last(redoStack)
              /\ Len(undoStack') = Len(undoStack) + 1
              /\ Timeline(HistoryAfter) = Timeline(History)
       ]_vars
  /\ [](Len(undoStack) > 0 => RedoOp(UndoOp(History)) = History)

\* twenty undos down to the oldest snapshot and twenty redos back
C7_Witness ==
  /\ lastOp = "redo"
  /\ redoStack = <<>>
  /\ redoDepth = HistoryLimit
  /\ Len(undoStack) = HistoryLimit

\* ------------------------------------------------------------------------
\* C8: after performUndo or performRedo no loop is in the Playing state and
\* no playback timeout or progress interval is pending.
\* ------------------------------------------------------------------------
C8_UndoRedoHaltPlayback ==
  [][lastOp' \in {"undo", "redo"}
       => /\ playingLoopId' = NoLoop
          /\ playbackTimers' = <<>>
          /\ progressIntervals' = {}
    ]_vars

\* a redo was made while a loop was playing
C8_Witness ==
  /\ lastOp = "redo"
  /\ prevPlaying # NoLoop
  /\ playingLoopId = NoLoop

\* ------------------------------------------------------------------------
\* C9: a recording session in which no note-start occurred commits no loop
\* and pushes no checkpoint: stopping it leaves the loop collection, the undo
\* stack and the redo stack unchanged.
\* ------------------------------------------------------------------------
C9_EmptyRecordingNoLoop ==
  [][(isRecording /\ ~isRecording' /\ heard = <<>>)
       => /\ loops' = loops
          /\ undoStack' = undoStack
          /\ redoStack' = redoStack
    ]_vars

\* ------------------------------------------------------------------------
\* C10: while recording the pending buffer holds exactly the note-starts of
\* the session, each once, stamped with its time since the recording origin;
\* a committed loop holds those events in non-decreasing timestamp order with
\* every timestamp in [0, duration], and its duration is the session length.
\* ------------------------------------------------------------------------
Sorted(events) ==
  \A i \in 1..(Len(events) - 1) : events[i].timestamp <= events[i + 1].timestamp

C10_RecordedEventsFaithful ==
  /\ [](isRecording => recordedEvents = heard)
  /\ [][lastOp' = "commit"
          => LET l == Last(loops') IN
             /\ l.events = heard
             /\ l.duration = recElapsed
             /\ Sorted(l.events)
             /\ \A i \in 1..Len(l.events) :
                  l.events[i].timestamp \in 0..l.duration
       ]_vars

\* ------------------------------------------------------------------------
\* C11: stopRecording with a non-empty buffer puts the pre-commit collection
\* on top of the undo stack, appends exactly one new loop that holds the
\* buffered events, and leaves the recorder idle with an empty buffer.
\* ------------------------------------------------------------------------
C11_CommitClearsBuffer ==
  [][lastOp' = "commit"
       => /\ Last(undoStack') = loops
          /\ Len(loops') = Len(loops) + 1
          /\ Front(loops') = loops
          /\ Last(loops').events = recordedEvents
          /\ ~isRecording'
          /\ recordedEvents' = <<>>
    ]_vars

\* ------------------------------------------------------------------------
\* C12: when the cycle of a playing loop ends while its mode is 'repeat', a
\* new forward cycle starts: every event gets a note-on timeout at its
\* recorded timestamp and a note-off 300 ms later, a new end timeout is set
\* at the duration and a new progress interval runs; a loop in 'repeat' mode
\* leaves the Playing state only by a stop, delete, clear, undo or redo.
\* ------------------------------------------------------------------------
\* the timeouts that the cycle just started has appended to the pending ones
CycleTimers(ts, n) == SubSeq(ts, Len(ts) - 2 * n, Len(ts))

ModeOf(ls, id) == FindLoop(ls, id).mode

C12_RepeatReschedules ==
  /\ [][(/\ lastOp' = "cycleEnd"
         /\ playingLoopId # NoLoop
         /\ ModeOf(loops, playingLoopId) = "repeat")
          => LET l == FindLoop(loops, playingLoopId)
                 n == Len(l.events)
                 fresh == CycleTimers(playbackTimers', n)
             IN /\ playingLoopId' = playingLoopId
                /\ Len(playbackTimers') = Len(playbackTimers) + 2 * n
                /\ \A i \in 1..n :
                     /\ fresh[2 * i - 1].kind = "play"
                     /\ fresh[2 * i - 1].note = l.events[i].note
                     /\ fresh[2 * i - 1].due = l.events[i].timestamp
                     /\ fresh[2 * i].kind = "stop"
                     /\ fresh[2 * i].note = l.events[i].note
                     /\ fresh[2 * i].due = l.events[i].timestamp + NoteOffDelay
                /\ fresh[2 * n + 1].kind = "end"
                /\ fresh[2 * n + 1].dir = "forward"
                /\ fresh[2 * n + 1].due = l.duration
                /\ \E i \in progressIntervals' :
                     i.loop = l.id /\ i.elapsed = 0 /\ i.due = ProgressPeriod
       ]_vars
  /\ [][(/\ playingLoopId # NoLoop
         /\ playingLoopId' = NoLoop
         /\ ModeOf(loops, playingLoopId) = "repeat")
          => lastOp' \in {"toggleStop", "deleteLoop", "clearAllLoops",
                          "undo", "redo"}
       ]_vars

\* the second cycle of the two-event loop has just been scheduled in 'repeat'
C12_Witness ==
  /\ lastOp = "cycleEnd"
  /\ playingLoopId = LoopA.id
  /\ ModeOf(loops, playingLoopId) = "repeat"
  /\ \E k \in 1..Len(playbackTimers) :
       playbackTimers[k].kind = "play" /\ playbackTimers[k].due = 500

\* ------------------------------------------------------------------------
\* C13: when the cycle of a playing loop ends while its mode is 'oneshot',
\* the progress of the loop has reached 100 % and is reset to 0 %, no loop is
\* Playing any more, and neither a note-on, nor a cycle end, nor a progress
\* sample remains scheduled.
\* ------------------------------------------------------------------------
C13_OneshotCompletes ==
  [][(/\ lastOp' = "cycleEnd"
      /\ playingLoopId # NoLoop
      /\ ModeOf(loops, playingLoopId) = "oneshot")
       => /\ playingLoopId \in DOMAIN loopProgress
          /\ loopProgress[playingLoopId] = 100
          /\ playingLoopId \in DOMAIN loopProgress'
          /\ loopProgress'[playingLoopId] = 0
          /\ playingLoopId' = NoLoop
          /\ \A k \in 1..Len(playbackTimers') :
               playbackTimers'[k].kind = "stop"
          /\ progressIntervals' = {}
    ]_vars

\* ------------------------------------------------------------------------
\* C14: in 'pingpong' mode the direction flips at every cycle end, a backward
\* cycle schedules the note-on of each event at duration - timestamp, and the
\* note-ons of a backward cycle fire at those mirrored times, the event
\* recorded last first.
\* ------------------------------------------------------------------------
\* the end timeout of the cycle in progress
EndTimer(ts) == ts[SetMin({k \in 1..Len(ts) : ts[k].kind = "end"})]
HasEndTimer(ts) == \E k \in 1..Len(ts) : ts[k].kind = "end"
\* the note-on timeouts that have not fired yet
PendingPlays(ts) == {k \in 1..Len(ts) : ts[k].kind = "play"}
\* time since the cycle in progress started
CycleElapsed(id) ==
  (CHOOSE i \in progressIntervals : i.loop = id /\ i.held).elapsed
Flip(dir) == IF dir = "forward" THEN "backward" ELSE "forward"

C14_PingpongMirrors ==
  /\ [][(/\ lastOp' = "cycleEnd"
         /\ playingLoopId # NoLoop
         /\ ModeOf(loops, playingLoopId) = "pingpong")
          => LET l == FindLoop(loops, playingLoopId)
                 n == Len(l.events)
                 fresh == CycleTimers(playbackTimers', n)
                 dir == Flip(FirstDue(playbackTimers).dir)
             IN /\ playingLoopId' = playingLoopId
                /\ fresh[2 * n + 1].kind = "end"
                /\ fresh[2 * n + 1].dir = dir
                /\ \A i \in 1..n :
                     /\ fresh[2 * i - 1].kind = "play"
                     /\ fresh[2 * i - 1].note = l.events[i].note
                     /\ fresh[2 * i - 1].due =
                          IF dir = "backward"
                          THEN l.duration - l.events[i].timestamp
                          ELSE l.events[i].timestamp
       ]_vars
  /\ [][(/\ lastOp' = "noteOn"
         /\ playingLoopId # NoLoop
         /\ HasEndTimer(playbackTimers)
         /\ EndTimer(playbackTimers).dir = "backward")
          => LET l == FindLoop(loops, playingLoopId)
                 r == Cardinality(PendingPlays(playbackTimers))
                 t == FirstDue(playbackTimers)
             IN /\ r \in 1..Len(l.events)
                /\ CycleElapsed(l.id) = l.duration - l.events[r].timestamp
                /\ (\A j \in 1..Len(l.events) :
                      j # r => l.events[j].timestamp # l.events[r].timestamp)
                     => t.note = l.events[r].note
       ]_vars

\* the backward cycle of the two-event loop has fired both note-ons: A4
\* (recorded at 500 ms) first, then C4 (recorded at 0 ms) 1000 ms into the cycle
C14_Witness ==
  /\ lastOp = "noteOn"
  /\ playingLoopId = LoopA.id
  /\ HasEndTimer(playbackTimers)
  /\ EndTimer(playbackTimers).dir = "backward"
  /\ PendingPlays(playbackTimers) = {}
  /\ latestNote.note = "C4"
  /\ CycleElapsed(LoopA.id) = LoopA.duration

\* ------------------------------------------------------------------------
\* C15: cycleMode leaves the cycle in progress as it is (the Playing loop,
\* every pending timeout with its remaining time, the progress interval and
\* the progress shown); what happens at a cycle end depends on the mode the
\* loop has at that moment only: 'oneshot' stops, 'pingpong' starts a cycle
\* in the opposite direction, 'repeat' starts a forward cycle.
\* ------------------------------------------------------------------------
C15_ModeReadAtCycleEnd ==
  /\ [][lastOp' = "cycleMode"
          => /\ playingLoopId' = playingLoopId
             /\ playbackTimers' = playbackTimers
             /\ progressIntervals' = progressIntervals
             /\ loopProgress' = loopProgress
       ]_vars
  /\ [][(lastOp' = "cycleEnd" /\ playingLoopId # NoLoop)
          => LET mode == ModeOf(loops, playingLoopId)
                 ended == FirstDue(playbackTimers)
             IN IF mode = "oneshot"
                THEN playingLoopId' = NoLoop /\ ~HasEndTimer(playbackTimers')
                ELSE /\ playingLoopId' = playingLoopId
                     /\ HasEndTimer(playbackTimers')
                     /\ EndTimer(playbackTimers').due =
                          FindLoop(loops, playingLoopId).duration
                     /\ EndTimer(playbackTimers').dir =
                          IF mode = "pingpong" THEN Flip(ended.dir)
                          ELSE "forward"
       ]_vars

\* the mode of the Playing loop was changed to 'oneshot' 16 ms or more into
\* its cycle, with note timeouts of that cycle still pending
C15_Witness ==
  /\ lastOp = "cycleMode"
  /\ playingLoopId = LoopA.id
  /\ ModeOf(loops, playingLoopId) = "oneshot"
  /\ CycleElapsed(LoopA.id) > 0
  /\ PendingPlays(playbackTimers) # {}
  /\ HasEndTimer(playbackTimers)

\* ------------------------------------------------------------------------
\* C16: the loop with events at 0 ms and 500 ms and a duration of 1000 ms is
\* played in 'repeat' mode and stopped 2500 ms after the start: exactly 4
\* note-on callbacks have run before the stop, and none runs after it.
\* ------------------------------------------------------------------------
StoppedAt(ms) == lastOp' = "toggleStop" /\ playClock = ms

C16_FourNoteOnsIn2500 ==
  /\ [][StoppedAt(2500) => noteOns = 4]_vars
  /\ [][lastOp = "toggleStop" => lastOp' # "noteOn"]_vars

\* C16 as amended: the note-ons due at 0, 500, 1000, 1500 and 2000 ms have
\* run before the stop, and the one due at 2500 ms has run too unless its
\* timeout was still pending when the stop cancelled it; none runs after it.
C16_FiveOrSixNoteOnsIn2500 ==
  /\ [][StoppedAt(2500)
          => noteOns = (IF PendingPlays(playbackTimers) # {} THEN 5 ELSE 6)
       ]_vars
  /\ [][lastOp = "toggleStop" => lastOp' # "noteOn"]_vars
  /\ [](lastOp = "toggleStop" => PendingPlays(playbackTimers) = {})

\* the loop was stopped at 2500 ms before the note-on due then had run
C16_Witness ==
  /\ lastOp = "toggleStop"
  /\ playClock = 2500
  /\ noteOns = 5
  /\ playingLoopId = NoLoop

\* ------------------------------------------------------------------------
\* C17: in every state reached from the default table {1 -> filter.frequency,
\* 7 -> gain} by learn bindings, deletions of one entry and clear-all, no
\* parameter path is bound to two controller numbers (and the table, being a
\* map from controller numbers, gives each controller at most one path).
\* ------------------------------------------------------------------------
C17_MappingOneToOne ==
  \A c1 \in CCs, c2 \in CCs :
    (c1 # c2 /\ midiMappings[c1] # NoParam)
      => midiMappings[c1] # midiMappings[c2]

\* the two default bindings have been exchanged by learn sessions
C17_Witness ==
  /\ lastOp = "controlChange"
  /\ midiMappings[1] = "gain"
  /\ midiMappings[7] = "filter.frequency"

\* ------------------------------------------------------------------------
\* C18: a learn binding of parameter P on controller C leaves C bound to P
\* and to nothing else (whatever C was bound to before is bound nowhere),
\* removes the entry of every other controller that was bound to P, and
\* leaves every other entry as it was.
\* ------------------------------------------------------------------------
\* the installed closure holds an armed learn session
Learns == midiHandler # <<>> /\ midiHandler[1].learningParam # NoParam

C18_LearnRebinds ==
  [][(lastOp' = "controlChange" /\ Learns)
       => LET cc == lastMessage'.cc
              P == midiHandler[1].learningParam
          IN /\ midiMappings'[cc] = P
             /\ \A k \in CCs \ {cc} :
                  midiMappings'[k] =
                    IF midiMappings[k] = P THEN NoParam ELSE midiMappings[k]
             /\ midiMappings[cc] \notin {NoParam, P}
                  => \A k \in CCs : midiMappings'[k] # midiMappings[cc]
    ]_vars

\* gain has been moved from controller 7 to controller 1, which held
\* filter.frequency, while controller 20 keeps envelope.attack
C18_Witness ==
  /\ lastOp = "controlChange"
  /\ learningParam = NoParam
  /\ midiMappings[1] = "gain"
  /\ midiMappings[7] = NoParam
  /\ midiMappings[20] = "envelope.attack"

\* ------------------------------------------------------------------------
\* C19: a controller message that arrives while a learn session is armed for
\* parameter P binds its controller number to P, clears the session and
\* changes no setting; a message that arrives while no session is armed binds
\* nothing, and when its controller is bound to a mappable parameter it sets
\* that parameter to the rescaled value.
\* ------------------------------------------------------------------------
ParamDef(id) == CHOOSE p \in MAPPABLE_PARAMS : p.id = id

C19_LearnBindsFirstMessageOnly ==
  /\ [][(lastOp' = "controlChange" /\ learningParam # NoParam)
          => /\ midiMappings'[lastMessage'.cc] = learningParam
             /\ learningParam' = NoParam
             /\ settings' = settings
       ]_vars
  /\ [][(lastOp' = "controlChange" /\ learningParam = NoParam)
          => LET cc == lastMessage'.cc
                 P == midiMappings[cc]
             IN /\ midiMappings' = midiMappings
                /\ learningParam' = NoParam
                /\ P \in ParamIds
                     => settings'[P] =
                          [default |-> FALSE,
                           value |-> Rescale(ParamDef(P), lastMessage'.value)]
       ]_vars

\* ------------------------------------------------------------------------
\* C20: stopNote takes the label out of the active-voice table at once and
\* leaves the voice releasing with one teardown timeout of release*1000 + 100
\* ms; the teardown takes down exactly that voice: it changes no table entry
\* and no other voice, so a voice registered under the same label by a
\* retrigger in the meantime keeps sounding and stays registered.
\* ------------------------------------------------------------------------
Registered == {activeNotes[l] : l \in Labels} \ {NoVoice}

C20_TeardownOwnsItsVoice ==
  /\ [][lastOp' \in {"stopNote", "playNote"}
          => \A l \in Labels :
               (activeNotes[l] # NoVoice /\ activeNotes'[l] # activeNotes[l])
                 => /\ lastOp' = "stopNote" => activeNotes'[l] = NoVoice
                    /\ \E t \in teardowns' \ teardowns :
                         /\ t.voice = activeNotes[l]
                         /\ (t.due - TeardownMargin) \in ReleaseMs
                    /\ \E v \in voices' :
                         v.id = activeNotes[l] /\ v.state = "releasing"
       ]_vars
  /\ [][lastOp' = "teardown"
          => /\ torn' # <<>>
             /\ torn'[1] \in voices
             /\ torn'[1].state = "releasing"
             /\ torn'[1].id \notin Registered
             /\ voices' = voices \ {torn'[1]}
             /\ activeNotes' = activeNotes
       ]_vars
  /\ [](\A v \in voices :
          /\ v.state = "releasing" <=> \E t \in teardowns : t.voice = v.id
          /\ v.state = "sounding" <=> v.id \in Registered)

\* the teardown of a stopped voice has run after its label was retriggered,
\* and the new voice under that label is registered and sounding
C20_Witness ==
  /\ lastOp = "teardown"
  /\ torn # <<>>
  /\ activeNotes[torn[1].label] # NoVoice
  /\ \E w \in voices :
       w.id = activeNotes[torn[1].label] /\ w.state = "sounding"

\* ------------------------------------------------------------------------
\* C21: when the audio context cannot be created, playNote raises no
\* exception, registers no voice and leaves lastFrequency as it was; stopNote
\* and updateSettings (run by every settings change) on an engine that is
\* not initialized change nothing and raise nothing.
\* ------------------------------------------------------------------------
SettingsOps == {"turnKnob", "toggleGlide", "controlChange", "glideSwitch"}

C21_InitFailureIsSilent ==
  [][/\ (lastOp' = "playNote" /\ ~ctx /\ ~audioOk) =>
          /\ ~thrown'
          /\ ~ctx'
          /\ UNCHANGED <<activeNotes, voices, lastFrequency, teardowns, nodes>>
     /\ (lastOp' \in {"stopNote"} \cup SettingsOps /\ ~ctx) =>
          /\ ~thrown'
          /\ UNCHANGED <<ctx, activeNotes, voices, lastFrequency, teardowns,
                         nodes>>
    ]_vars

\* ------------------------------------------------------------------------
\* C22: stopNote for a label without an entry in the table is a no-op: the
\* table, every voice, lastFrequency and the pending teardown timers stay as
\* they are; so a second stopNote of the same label changes nothing more.
\* ------------------------------------------------------------------------
EngineCore == <<ctx, activeNotes, lastFrequency, voices, teardowns, nodes>>

C22_StopOfAbsentLabelIsNoOp ==
  /\ [](\A l \in Labels, r1 \in ReleaseMs, r2 \in ReleaseMs :
         /\ activeNotes[l] = NoVoice => StopNoteOp(Engine, l, r1) = Engine
         /\ StopNoteOp(StopNoteOp(Engine, l, r1), l, r2)
              = StopNoteOp(Engine, l, r1))
  /\ [][lastOp' = "stopNote" =>
          \/ UNCHANGED EngineCore
          \/ \E l \in Labels :
               /\ activeNotes[l] # NoVoice
               /\ activeNotes' = [activeNotes EXCEPT ![l] = NoVoice]
               /\ Cardinality(teardowns') = Cardinality(teardowns) + 1
               /\ lastFrequency' = lastFrequency]_vars

\* a stopNote has just run on an initialized engine and found no entry: no
\* voice is left releasing behind it
C22_Witness ==
  /\ lastOp = "stopNote"
  /\ ctx
  /\ lastFrequency # 0
  /\ voices = {}
  /\ \A l \in Labels : activeNotes[l] = NoVoice

\* ------------------------------------------------------------------------
\* C23: playNote schedules a glide (hold at the previous frequency, then a
\* ramp to the target that starts 2 ms ahead and lasts max(glideSpeed, 5 ms))
\* exactly when settings.glide is on, a previous frequency exists and differs
\* from the target, and glideSpeed > 0; otherwise the frequency is set at
\* once.
\* ------------------------------------------------------------------------
\* the voices that a step has created
Started == {v \in voices' : v.id \notin {w.id : w \in voices}}
Max2(a, b) == IF a >= b THEN a ELSE b

C23_GlideExactlyWhenDue ==
  [][lastOp' = "playNote" =>
       \A v \in Started :
         IF /\ settings["glide"].value = 1
            /\ lastFrequency # 0
            /\ lastFrequency # v.freq
            /\ settings["glideSpeed"].value > 0
         THEN /\ v.glide.from = lastFrequency
              /\ v.glide.start = Ms(2)
              /\ v.glide.duration = Max2(settings["glideSpeed"].value, Ms(5))
         ELSE v.glide = NoGlide]_vars

\* a first note started without a glide, a second one with a glide of 200 ms
\* from the first one's frequency, and the note just started, under a loaded
\* preset with a glide time of 1 ms, with a glide of 5 ms
C23_Witness ==
  /\ lastOp = "playNote"
  /\ \E w \in voices : w.glide = NoGlide /\ w.freq = FreqOf("C4")
  /\ \E v \in voices :
       v.glide = [from |-> FreqOf("C4"), start |-> Ms(2), duration |-> Ms(200)]
  /\ \E u \in voices :
       /\ activeNotes[u.label] = u.id
       /\ u.freq = lastFrequency
       /\ u.glide # NoGlide
       /\ u.glide.duration = Ms(5)
       /\ settings["glideSpeed"].value = Ms(1)

\* ------------------------------------------------------------------------
\* C24: the glide origin is one engine-wide value: after every playNote that
\* gets past initialization lastFrequency is that call's target, whatever
\* the label and the glide switch; stopNote and updateSettings never change
\* it.
\* ------------------------------------------------------------------------
C24_GlideOriginIsLastStarted ==
  [][/\ (lastOp' = "playNote" /\ ctx') =>
          /\ Cardinality(Started) = 1
          /\ \A v \in Started : lastFrequency' = v.freq
     /\ (lastOp' \in {"stopNote"} \cup SettingsOps) =>
          lastFrequency' = lastFrequency]_vars

\* A4 has just started with a glide from the frequency of C4, a different
\* label whose voice was stopped before
C24_Witness ==
  /\ lastOp = "playNote"
  /\ lastFrequency = FreqOf("A4")
  /\ activeNotes["C4"] = NoVoice
  /\ \E w \in voices : w.label = "C4" /\ w.state = "releasing"
  /\ \E v \in voices :
       /\ v.label = "A4"
       /\ activeNotes["A4"] = v.id
       /\ v.glide.from = FreqOf("C4")
  /\ Cardinality(voices) = 2

\* ------------------------------------------------------------------------
\* C25: for every mappable parameter with range [min, max], a mapped
\* controller value of 0 sets the parameter to min, 127 sets it to max, 64
\* sets it within half a controller step of the midpoint; the value is
\* linear in the controller value, and monotone.
\* ------------------------------------------------------------------------
\* min and max of a parameter in the units of the settings
InUnits(hundredths) == (Unit \div 100) * hundredths
Abs(x) == IF x < 0 THEN -x ELSE x
\* the parameter that controller 1 is bound to, when it is a mappable one
BoundDef == CHOOSE p \in MAPPABLE_PARAMS : p.id = midiMappings[1]
Handled7Bit ==
  /\ lastOp = "controlChange"
  /\ lastMessage.value <= 127
  /\ \E p \in MAPPABLE_PARAMS : p.id = midiMappings[1]

C25_ControllerRescalesLinearly ==
  Handled7Bit =>
    LET def == BoundDef
        v == lastMessage.value
        value == settings[def.id].value
        step == InUnits(def.max - def.min) \div 127
    IN /\ ~settings[def.id].default
       /\ v = 0 => value = InUnits(def.min)
       /\ v = 127 => value = InUnits(def.max)
       /\ v = 64 => 2 * Abs(2 * value - InUnits(def.min + def.max)) <= 2 * step
       /\ value = InUnits(def.min) + v * step
       /\ step > 0
       /\ 127 * step = InUnits(def.max - def.min)
       /\ \A w \in 0..126 : Rescale(def, w) < Rescale(def, w + 1)

\* controller 1, bound to detune (-100..100), has sent 64: detune is 100000
\* units, about 0.79 cents above the midpoint 0
C25_Witness ==
  /\ Handled7Bit
  /\ midiMappings[1] = "detune"
  /\ lastMessage.value = 64
  /\ settings["detune"] = Set(100000)

\* ------------------------------------------------------------------------
\* C26: a value applied to settings through a controller mapping lies within
\* the declared [min, max] of the parameter, whatever the data byte of the
\* message: a byte outside 0..127 is clamped.
\* ------------------------------------------------------------------------
C26_AppliedValueInRange ==
  (/\ lastOp = "controlChange"
   /\ \E p \in MAPPABLE_PARAMS : p.id = midiMappings[1])
  => LET def == BoundDef
         value == settings[def.id].value
     IN /\ InUnits(def.min) <= value
        /\ value <= InUnits(def.max)

\* ------------------------------------------------------------------------
\* C27: a controller bound to glide through learn mode sets settings.glide
\* to true when its rescaled value is above the midpoint and to false when
\* it is below.
\* ------------------------------------------------------------------------
C27_GlideFollowsController ==
  [][(/\ lastOp' = "controlChange"
      /\ midiHandler[1].learningParam = NoParam
      /\ midiHandler[1].midiMappings[lastMessage'.cc] = "glide")
     => settings'["glide"] =
          Set(IF 2 * lastMessage'.value > 127 THEN 1 ELSE 0)]_vars

\* ------------------------------------------------------------------------
\* C28: handleMIDIMessage dispatches on status & 0xF0 whatever the channel:
\* 0x90 with velocity > 0 starts a note exactly once; 0x80, or 0x90 with
\* velocity 0, ends a note exactly once and starts no voice; 0xB0 goes to
\* the mapping layer and neither starts nor ends a note; note messages leave
\* the mapping table and the learn session alone; any other command changes
\* nothing.
\* ------------------------------------------------------------------------
Nibble(status) == status - (status % 16)
LearnState == <<isLearnModeActive, midiMappings, learningParam, midiHandler,
                pendingHandlers, settings, lastMessage>>
NoteTable == <<activeNotes, teardowns, lastFrequency, latestNote>>

C28_DispatchOnCommand ==
  [][lastOp' = "midiMessage" =>
       LET m == lastMidi'
           label == GetNoteLabel(m.data1)
       IN /\ (Nibble(m.status) = 144 /\ m.data2 > 0) =>
               /\ Cardinality(Started) = 1
               /\ \A v \in Started :
                    /\ v.label = label
                    /\ activeNotes'[label] = v.id
               /\ latestNote' = [note |-> label, frequency |-> FreqOf(label)]
               /\ Cardinality(teardowns') =
                    Cardinality(teardowns)
                      + (IF activeNotes[label] # NoVoice THEN 1 ELSE 0)
               /\ UNCHANGED LearnState
          /\ (Nibble(m.status) = 128
                 \/ (Nibble(m.status) = 144 /\ m.data2 = 0)) =>
               /\ Started = {}
               /\ activeNotes' = [activeNotes EXCEPT ![label] = NoVoice]
               /\ Cardinality(teardowns') =
                    Cardinality(teardowns)
                      + (IF activeNotes[label] # NoVoice THEN 1 ELSE 0)
               /\ UNCHANGED <<lastFrequency, latestNote>>
               /\ UNCHANGED LearnState
          /\ Nibble(m.status) = 176 =>
               /\ Started = {}
               /\ UNCHANGED NoteTable
               /\ lastMessage' = [cc |-> m.data1, value |-> m.data2]
          /\ Nibble(m.status) \notin {128, 144, 176} =>
               UNCHANGED <<engineVars, looperVars, midiVars>>]_vars

\* a note-on on channel 4 has just started A4 again while a learn session
\* is armed; its earlier voice is releasing
C28_Witness ==
  /\ lastOp = "midiMessage"
  /\ lastMidi = [status |-> 147, data1 |-> 69, data2 |-> 127]
  /\ learningParam = "gain"
  /\ activeNotes["A4"] # NoVoice
  /\ \E v \in voices : v.label = "A4" /\ v.state = "releasing"

\* ------------------------------------------------------------------------
\* C29: an import of malformed preset data (text that is no JSON, or JSON
\* without a settings object or without a name) shows the alert and leaves
\* the settings, the preset name and the saved presets as they were.
\* ------------------------------------------------------------------------
Malformed(file) ==
  \/ file.kind # "object"
  \/ file.settings = UndefinedSettings
  \/ file.name = NoName

C29_MalformedImportRejected ==
  [][(lastOp' = "importPreset" /\ Malformed(lastImport'))
       => (alerted' /\ UNCHANGED <<settings, presetName, savedPresets>>)]_vars

\* ------------------------------------------------------------------------
\* C30: no step changes the events, the duration or the id of a loop that
\* exists before and after it.  saveEdit changes nothing but the name of one
\* loop, cycleMode nothing but the mode of one loop, which it moves one place
\* on in repeat -> oneshot -> pingpong -> repeat, so that three calls on a
\* loop give the collection back; playback, backward cycles included, leaves
\* the collection as it is.
\* ------------------------------------------------------------------------
\* the steps of a playback session
PlaybackOps == {"playLoop", "toggleStop", "noteOn", "noteOff", "cycleEnd",
                "progress", "advance"}

\* ls2 is ls with field f of the k-th loop replaced
OnlyField(ls, ls2, k, f) ==
  /\ Len(ls2) = Len(ls)
  /\ \A i \in 1..Len(ls) :
       IF i # k THEN ls2[i] = ls[i]
       ELSE \A g \in (DOMAIN ls[i]) \ {f} : ls2[i][g] = ls[i][g]

Thrice(ls, id) == CycleModeOp(CycleModeOp(CycleModeOp(ls, id), id), id)

C30_RecordedLoopsImmutable ==
  [][/\ \A i \in 1..Len(loops), j \in 1..Len(loops') :
          loops'[j].id = loops[i].id
            => /\ loops'[j].events = loops[i].events
               /\ loops'[j].duration = loops[i].duration
     /\ lastOp' = "saveEdit"
          => \E k \in 1..Len(loops) : OnlyField(loops, loops', k, "name")
     /\ lastOp' = "cycleMode"
          => \E k \in 1..Len(loops) :
                /\ OnlyField(loops, loops', k, "mode")
                /\ loops'[k].mode = NextMode(loops[k].mode)
                /\ loops'[k].mode # loops[k].mode
                /\ Thrice(loops, loops[k].id) = loops
     /\ lastOp' \in PlaybackOps => loops' = loops]_vars

\* LOOP 2 has been renamed and LOOP 1, taken to pingpong mode by two calls
\* of cycleMode, has just begun its backward cycle: its timers carry the
\* mirrored timestamps, and the events of both loops are the recorded ones
C30_Witness ==
  /\ lastOp = "cycleEnd"
  /\ Len(loops) = 2
  /\ loops[1] = [LoopA EXCEPT !.mode = "pingpong"]
  /\ \E t \in Range(playbackTimers) :
       t.kind = "play" /\ t.note = "C4" /\ t.due = LoopA.duration
  /\ loops[2] = [LoopB EXCEPT !.name = "A"]

\* ------------------------------------------------------------------------
\* C31: the updateSettings run by a settings change sets the detune target
\* (settings.detune + masterTune) and the pan width of every voice that is
\* in the active-voice table, and of no other voice: a voice that stopNote
\* has removed keeps its targets, no voice is added or removed, the table
\* stays as it is.  On an engine that is not initialized nothing changes.
\* ------------------------------------------------------------------------
KnobOps == {"turnKnob", "tuneSlider"}

\* the voice of voices' that has the id of v
After(v) == CHOOSE w \in voices' : w.id = v.id

C31_UpdateRetargetsActiveVoices ==
  [][lastOp' \in KnobOps =>
       /\ UNCHANGED <<ctx, activeNotes, lastFrequency, teardowns>>
       /\ ~ctx => UNCHANGED <<voices, nodes>>
       /\ {w.id : w \in voices'} = {v.id : v \in voices}
       /\ Cardinality(voices') = Cardinality(voices)
       /\ ctx => \A v \in voices :
            IF activeNotes[v.label] = v.id
            THEN After(v) =
                   [v EXCEPT
                      !.detune = settings'["detune"].value
                                   + settings'["masterTune"].value,
                      !.width = settings'["stereoWidth"].value]
            ELSE After(v) = v]_vars

\* the Fine Tune slider has just moved under a turned detune knob: the
\* voice of the table follows, the voice that stopNote removed before does not
C31_Witness ==
  /\ lastOp = "tuneSlider"
  /\ \E v \in voices :
       /\ activeNotes[v.label] = v.id
       /\ v.detune = 50 * Unit - 20 * Unit
  /\ \E w \in voices :
       /\ activeNotes[w.label] # w.id
       /\ w.state = "releasing"
       /\ w.detune = 50 * Unit

\* ------------------------------------------------------------------------
\* C32: a newly committed loop is named 'LOOP N' with N one more than the
\* number of loops in the collection at commit time, and no loop already in
\* the collection carries that name, also after deletions and undo.
\* ------------------------------------------------------------------------
C32_DefaultNamesSequential ==
  [][lastOp' = "commit" =>
       /\ Len(loops') = Len(loops) + 1
       /\ Last(loops').name = LoopName(Len(loops) + 1)
       /\ \A i \in 1..Len(loops) : loops[i].name # Last(loops').name]_vars

\* ------------------------------------------------------------------------
\* C33: a committed loop holds note-starts of its own recording window only:
\* each of its events is a note-start that happened between startRecording
\* and stopRecording of the session, and it has as many events as there were
\* note-starts in the window.
\* ------------------------------------------------------------------------
C33_LoopHoldsOwnSessionOnly ==
  [][lastOp' = "commit" =>
       /\ \A e \in Range(Last(loops').events) : e \in Range(heard)
       /\ Len(Last(loops').events) = Len(heard)]_vars

\* ------------------------------------------------------------------------
\* C34: while a key is held on the Keyboard (its onNoteStart has been called
\* and its onNoteEnd has not), a voice is registered under its label in the
\* active-voice table, whatever note-on and note-off callbacks other sources
\* deliver for the same label.
\* ------------------------------------------------------------------------
C34_HeldKeyKeepsVoice ==
  \A l \in held : activeNotes[l] # NoVoice

\* ------------------------------------------------------------------------
\* C39: for each label the Keyboard calls onNoteStart and onNoteEnd in strict
\* alternation, beginning with onNoteStart: whatever physical keys, mouse
\* and touch do, it never calls onNoteStart for a label whose last call was
\* onNoteStart, nor onNoteEnd for a label that is not held.
\* ------------------------------------------------------------------------
C39_StartEndAlternate ==
  [][/\ \A i \in 1..Len(emitted') :
          IF emitted'[i].kind = "start" THEN emitted'[i].label \notin held
          ELSE emitted'[i].label \in held
     /\ \A i, j \in 1..Len(emitted') :
          i # j => emitted'[i].label # emitted'[j].label]_vars

\* ------------------------------------------------------------------------
\* C40: every release of the pointer on a virtual key, and every leave of
\* the pointer from one, whose label is held as pressed calls onNoteEnd for
\* that label, also while the keyboard is being drag-panned.
\* ------------------------------------------------------------------------
Ended(label) == Call("end", label) \in Range(emitted')

C40_ReleaseEndsNote ==
  [][/\ (lastOp' = "mouseUp" /\ pointer \in pressedKeys) => Ended(pointer)
     /\ (lastOp' = "mouseMove" /\ pointer' # pointer
           /\ pointer \in pressedKeys) => Ended(pointer)
     /\ lastOp' = "touchEnd" =>
          \A at \in (touches \ touches') \cap pressedKeys : Ended(at)]_vars

\* ------------------------------------------------------------------------
\* C35: whenever the engine is initialized, the targets of the shared nodes
\* (here the filter cutoff and the master gain) are the values of the
\* current settings, also right after the lazy initialization by the first
\* playNote.  A setting that still has its default value is not compared,
\* the defaults of the App being outside the model.
\* ------------------------------------------------------------------------
Follows(node, setting) == setting.default \/ node = setting

C35_SharedNodesFollowSettings ==
  ctx => /\ Follows(nodes.cutoff, settings["filter.frequency"])
         /\ Follows(nodes.gain, settings["gain"])

\* ------------------------------------------------------------------------
\* C36: while learn mode is off, a controller message leaves the mapping
\* table as it is: no learn session stays armed once learn mode has been
\* switched off by the MIDI LEARN button or by the close button of the
\* banner.
\* ------------------------------------------------------------------------
C36_NoBindingWhileLearnOff ==
  [][(lastOp' = "controlChange" /\ ~isLearnModeActive)
       => midiMappings' = midiMappings]_vars

\* ---- the engine with its timers running: a timeout that is due fires, and
\* time does not stand still while a timeout is pending ----
SpecTeardown ==
  /\ InitEngine /\ [][NextEngine]_vars
  /\ WF_vars(EngineTeardown) /\ WF_vars(EngineAdvance)

\* ------------------------------------------------------------------------
\* C37: a voice that has left the active-voice table (by stopNote or by a
\* retrigger) has exactly one teardown pending until it is torn down, and it
\* is torn down in the end; a teardown takes down a voice that is not in the
\* table, once: the voice and its timeout are gone afterwards.
\* ------------------------------------------------------------------------
VoiceIds == 1..(MaxVoices + 1)
Removed == {v.id : v \in voices} \ Registered
TimeoutsOf(id) == {t \in teardowns : t.voice = id}

C37_RemovedVoiceTornDownOnce ==
  /\ [](\A id \in Removed : Cardinality(TimeoutsOf(id)) = 1)
  /\ [](\A t \in teardowns : t.voice \in Removed)
  /\ [][torn' # <<>>
          => /\ torn'[1] \in voices
             /\ torn'[1].id \in Removed
             /\ torn'[1] \notin voices'
             /\ \A t \in teardowns' : t.voice # torn'[1].id
             /\ activeNotes' = activeNotes
       ]_vars
  /\ [][Removed' \ Removed # {} => lastOp' \in {"stopNote", "playNote"}]_vars
  /\ \A id \in VoiceIds :
       (id \in Removed) ~> (torn # <<>> /\ torn[1].id = id)

\* a retriggered label: the voice it replaced is torn down while the new
\* voice under the same label stays in the table, and another removed voice
\* still waits for its own timeout
C37_Witness ==
  /\ lastOp = "teardown"
  /\ torn # <<>>
  /\ activeNotes[torn[1].label] # NoVoice
  /\ Removed # {}

\* ------------------------------------------------------------------------
\* C38: the Playing loop id is null or the id of a loop of the collection;
\* deleting the playing loop, clear-all, undo and redo leave it null; deleting
\* a loop that is not playing leaves the id, the timers, the progress
\* intervals and the progress of the playing loop as they were.
\* ------------------------------------------------------------------------
C38_PlayingLoopIsPresent ==
  /\ [](playingLoopId = NoLoop \/ playingLoopId \in LoopIds(loops))
  /\ [][lastOp' \in {"clearAllLoops", "undo", "redo"}
          => playingLoopId' = NoLoop]_vars
  /\ [][lastOp' = "deleteLoop"
          => IF playingLoopId \in LoopIds(loops')
             THEN UNCHANGED playbackVars
             ELSE playingLoopId' = NoLoop
       ]_vars

\* the loop that was not playing has been deleted in the middle of a cycle
\* of the other one, whose timeouts are still pending
C38_Witness ==
  /\ lastOp = "deleteLoop"
  /\ playingLoopId # NoLoop
  /\ \E k \in 1..Len(playbackTimers) :
       playbackTimers[k].kind = "end" /\ playbackTimers[k].due < LoopA.duration
  /\ \E k \in 1..Len(playbackTimers) : playbackTimers[k].kind = "stop"
====
